---- MODULE Spec2Model ----
(***************************************************************************)
(* Sensor field decoding and calibration pipeline of kegscale-rpi.        *)
(*                                                                         *)
(* The module models, from the Python sources under src/:                  *)
(*   - the frame decoders parse_fields (kegmaster_reader_auto_tare.py),    *)
(*     parse_service_data (ble_kegscale_reader.py), decode_payload         *)
(*     (ble_kegscale_scanner.py) and parse_sd (fe_weight_reader.py);       *)
(*   - live_read / on_detect of ble_kegscale_reader.py (median smoothing,  *)
(*     stability gate, zeroing, displayed value);                          *)
(*   - the two-point calibration procedures calibrate                      *)
(*     (ble_kegscale_reader.py, fe_weight_reader.py) and run_calibration   *)
(*     (rpi_ble_scanner.py), with the calibration file they load and save. *)
(*                                                                         *)
(* Python floats are IEEE-754 binary64 values.  They are modelled exactly: *)
(* a float is a record [s, m, e] of value (-1)^s * m * 2^e with m a        *)
(* 53-bit significand held as a little-endian sequence of base-2^14 limbs, *)
(* and every arithmetic operation rounds to nearest, ties to even.         *)
(***************************************************************************)
EXTENDS Integers, Sequences, FiniteSets

(***************************************************************************)
(* Natural numbers wider than a machine word: little-endian limbs in base  *)
(* 2^14, no leading zero limb, <<>> for 0.  Carries and borrows are found  *)
(* by look-ahead, so that no operator recurses.                            *)
(***************************************************************************)
Base == 16384

LimbBits == 14

Pow2(n) == IF n <= 0 THEN 1 ELSE 2 ^ n

SetMax(S) == CHOOSE x \in S : \A y \in S : y <= x

Limb(a, i) == IF i >= 1 /\ i <= Len(a) THEN a[i] ELSE 0

BNorm(a) ==
    LET nz == {i \in 1..Len(a) : a[i] # 0}
    IN  IF nz = {} THEN <<>> ELSE SubSeq(a, 1, SetMax(nz))

BFromNat(n) == BNorm(<<n % Base, (n \div Base) % Base, n \div (Base * Base)>>)

BAdd(a, b) ==
    LET n == (IF Len(a) > Len(b) THEN Len(a) ELSE Len(b)) + 1
        carry(i) == \E j \in 1..(i - 1) :
                       /\ Limb(a, j) + Limb(b, j) >= Base
                       /\ \A k \in (j + 1)..(i - 1) : Limb(a, k) + Limb(b, k) = Base - 1
    IN  BNorm([i \in 1..n |->
                 (Limb(a, i) + Limb(b, i) + (IF carry(i) THEN 1 ELSE 0)) % Base])

\* a - b for a >= b
BSub(a, b) ==
    LET borrow(i) == \E j \in 1..(i - 1) :
                        /\ Limb(a, j) < Limb(b, j)
                        /\ \A k \in (j + 1)..(i - 1) : Limb(a, k) = Limb(b, k)
    IN  BNorm([i \in 1..Len(a) |->
                 ((a[i] - Limb(b, i)) - (IF borrow(i) THEN 1 ELSE 0) + Base) % Base])

\* -1, 0, 1 as a < b, a = b, a > b
BCmp(a, b) ==
    IF Len(a) < Len(b) THEN -1
    ELSE IF Len(a) > Len(b) THEN 1
    ELSE LET D == {i \in 1..Len(a) : a[i] # b[i]}
         IN  IF D = {} THEN 0
             ELSE IF a[SetMax(D)] < b[SetMax(D)] THEN -1 ELSE 1

\* a * 2^n
BShl(a, n) ==
    LET r == Pow2(n % LimbBits)
    IN  BNorm([i \in 1..(n \div LimbBits) |-> 0] \o
              [i \in 1..(Len(a) + 1) |->
                 ((Limb(a, i) * r) % Base) + ((Limb(a, i - 1) * r) \div Base)])

\* floor(a / 2^n)
BShr(a, n) ==
    LET q == n \div LimbBits
        r == Pow2(n % LimbBits)
    IN  BNorm([i \in 1..(Len(a) - q) |->
                 (a[i + q] \div r) + (Limb(a, i + q + 1) % r) * (Base \div r)])

\* a * b for a and b of at most 4 limbs: the column sums, each split into
\* three limbs, added up
BMul(a, b) ==
    LET col(k) == Limb(a, 1) * Limb(b, k) + Limb(a, 2) * Limb(b, k - 1)
                  + Limb(a, 3) * Limb(b, k - 2) + Limb(a, 4) * Limb(b, k - 3)
        X0 == [k \in 1..7 |-> col(k) % Base]
        X1 == [k \in 1..8 |-> (col(k - 1) \div Base) % Base]
        X2 == [k \in 1..9 |-> col(k - 2) \div (Base * Base)]
    IN  BAdd(BAdd(BNorm(X0), BNorm(X1)), BNorm(X2))

\* number of bits of a
BBits(a) ==
    IF a = <<>> THEN 0
    ELSE (LimbBits * (Len(a) - 1)) + Cardinality({k \in 0..(LimbBits - 1) : Pow2(k) <= a[Len(a)]})

BOdd(a) == a # <<>> /\ a[1] % 2 = 1

\* a mod 2^n
BLow(a, n) ==
    BNorm([i \in 1..(n \div LimbBits + 1) |->
             IF i <= n \div LimbBits THEN Limb(a, i)
             ELSE Limb(a, i) % Pow2(n % LimbBits)])

(***************************************************************************)
(* Long division in base 2^14 (Knuth's algorithm D) of n by a divisor d    *)
(* whose top limb is at least Base / 2.  A state is <<q, r>>: the quotient *)
(* limbs found so far and the running remainder r < d.                     *)
(***************************************************************************)
\* a * k for one limb k
BMulS(a, k) ==
    BAdd(BNorm([i \in 1..Len(a) |-> (a[i] * k) % Base]),
         BNorm([i \in 1..(Len(a) + 1) |-> (Limb(a, i - 1) * k) \div Base]))

\* the next quotient limb is qd, and p = qd * d
BDivTake(q, r1, qd, p) == << <<qd>> \o q, BSub(r1, p) >>

BDivFix2(d, q, r1, qh, p) ==
    IF BCmp(p, r1) <= 0 THEN BDivTake(q, r1, qh, p)
    ELSE BDivTake(q, r1, qh - 1, BSub(p, d))

\* the estimate qh of the next quotient limb is at most 2 too large; p = qh * d
BDivFix1(d, q, r1, qh, p) ==
    IF BCmp(p, r1) <= 0 THEN BDivTake(q, r1, qh, p)
    ELSE BDivFix2(d, q, r1, qh - 1, BSub(p, d))

BDivFix(d, q, r1, qh) == BDivFix1(d, q, r1, qh, BMulS(d, qh))

BDivPick(d, q, r1, est) ==
    IF BCmp(r1, d) < 0 THEN << <<0>> \o q, r1 >>
    ELSE BDivFix(d, q, r1, IF est > Base - 1 THEN Base - 1 ELSE est)

\* bring down one limb of the dividend
BDivDigit(d, st, limb) ==
    BDivPick(d, st[1], BNorm(<<limb>> \o st[2]),
             ((Limb(<<limb>> \o st[2], Len(d) + 1)) * Base
               + Limb(<<limb>> \o st[2], Len(d))) \div d[Len(d)])

\* Strict(st) is TRUE; deciding it evaluates st before the loop goes on
Strict(st) == Len(st[1]) + Len(st[2]) >= 0

RECURSIVE BDivLoop(_, _, _, _)
BDivLoop(n, d, j, st) ==
    IF j = 0 THEN <<BNorm(st[1]), st[2]>>
    ELSE IF Strict(st) THEN BDivLoop(n, d, j - 1, BDivDigit(d, st, Limb(n, j)))
    ELSE st

\* <<quotient, remainder>> of n by d; the top Len(d) - 1 limbs of n are
\* less than d and start the remainder
BDivFrom(n, d, k) == BDivLoop(n, d, Len(n) - k, <<<<>>, SubSeq(n, Len(n) - k + 1, Len(n))>>)

BDivMod(n, d) == BDivFrom(n, d, IF Len(n) < Len(d) - 1 THEN Len(n) ELSE Len(d) - 1)

(***************************************************************************)
(* binary64.  Zero is [s |-> 0, m |-> <<>>, e |-> 0]: Python's 0.0 and    *)
(* -0.0 compare equal and are one value here.  Exponent overflow and       *)
(* subnormals do not arise for the magnitudes modelled.                    *)
(***************************************************************************)
MantBits == 53

FZero == [s |-> 0, m |-> <<>>, e |-> 0]

\* m1 holds MantBits or MantBits + 1 bits
FPack(s, e, m1) ==
    IF BBits(m1) > MantBits THEN [s |-> s, m |-> BShr(m1, 1), e |-> e + 1]
    ELSE [s |-> s, m |-> m1, e |-> e]

\* q is the significand cut to MantBits bits; c compares what was cut off
\* with half a unit in the last place; ties go to the even significand
FRoundQ(s, e, sticky, q, c) ==
    FPack(s, e, IF c > 0 \/ (c = 0 /\ (sticky \/ BOdd(q))) THEN BAdd(q, <<1>>) ELSE q)

FRoundD(s, M, e, sticky, d) ==
    IF d <= 0 THEN [s |-> s, m |-> BShl(M, -d), e |-> e + d]
    ELSE FRoundQ(s, e + d, sticky, BShr(M, d), BCmp(BLow(M, d), BShl(<<1>>, d - 1)))

\* The float nearest to (-1)^s * (M + f) * 2^e, where 0 <= f < 1 and
\* sticky says f > 0 (M then holds more than MantBits + 1 bits).
FRound(s, M, e, sticky) ==
    IF M = <<>> THEN FZero ELSE FRoundD(s, M, e, sticky, BBits(M) - MantBits)

Abs(n) == IF n < 0 THEN -n ELSE n

\* float(n) for an int n
FInt(n) == FRound(IF n < 0 THEN 1 ELSE 0, BFromNat(Abs(n)), 0, FALSE)

FNeg(a) == IF a.m = <<>> THEN a ELSE [a EXCEPT !.s = 1 - a.s]

FMul(a, b) ==
    IF a.m = <<>> \/ b.m = <<>> THEN FZero
    ELSE FRound((a.s + b.s) % 2, BMul(a.m, b.m), a.e + b.e, FALSE)

\* A * 2^e and B * 2^e are the magnitudes, c compares them
FSubMag(sa, sb, A, B, e, c) ==
    IF c = 0 THEN FZero
    ELSE IF c > 0 THEN FRound(sa, BSub(A, B), e, FALSE)
    ELSE FRound(sb, BSub(B, A), e, FALSE)

FAddAligned(sa, sb, A, B, e) ==
    IF sa = sb THEN FRound(sa, BAdd(A, B), e, FALSE)
    ELSE FSubMag(sa, sb, A, B, e, BCmp(A, B))

FAddAt(a, b, e) == FAddAligned(a.s, b.s, BShl(a.m, a.e - e), BShl(b.m, b.e - e), e)

FAdd(a, b) ==
    IF a.m = <<>> THEN b
    ELSE IF b.m = <<>> THEN a
    ELSE FAddAt(a, b, IF a.e < b.e THEN a.e ELSE b.e)

FSub(a, b) == FAdd(a, FNeg(b))

\* bits by which a significand is shifted to fill its limbs
NormShift == 3

FDivQ(s, e, qr) == FRound(s, qr[1], e, qr[2] # <<>>)

\* a / b for b # 0 (Python raises ZeroDivisionError for b = 0; callers test)
FDiv(a, b) ==
    IF a.m = <<>> \/ b.m = <<>> THEN FZero
    ELSE FDivQ((a.s + b.s) % 2, a.e - b.e - (MantBits + 3),
               BDivMod(BShl(a.m, MantBits + 3 + NormShift), BShl(b.m, NormShift)))

\* a < b
FLt(a, b) ==
    LET mag == IF a.m = <<>> THEN (IF b.m = <<>> THEN 0 ELSE -1)
               ELSE IF b.m = <<>> THEN 1
               ELSE IF a.e < b.e THEN -1
               ELSE IF a.e > b.e THEN 1
               ELSE BCmp(a.m, b.m)
    IN  IF a.s # b.s THEN a.s = 1
        ELSE IF a.s = 0 THEN mag < 0 ELSE mag > 0

\* max(a, b) of Python: the first argument unless the second is greater
\* max with the smaller of the two taken
FMax_min(a, b) == IF FLt(a, b) THEN a ELSE b

FMax(a, b) == IF FLt(a, b) THEN b ELSE a

\* the float nearest to n / d, as a decimal literal or int / int gives it
FRat(n, d) == FDiv(FInt(n), FInt(d))

(***************************************************************************)
(* Frames.  A frame is a sequence of bytes; Python indexes it from 0.      *)
(* An optional value (None or a value) is <<>> or <<v>>.                   *)
(***************************************************************************)
None == <<>>

Some(v) == <<v>>

At(b, i) == b[i + 1]

U16LE(b, i) == At(b, i) + 256 * At(b, i + 1)

U16BE(b, i) == 256 * At(b, i) + At(b, i + 1)

S16LE(b, i) == IF U16LE(b, i) >= 32768 THEN U16LE(b, i) - 65536 ELSE U16LE(b, i)

\* int.from_bytes(b[i:i+4], "little", signed=True)
S32LE(b, i) ==
    (IF At(b, i + 3) >= 128 THEN At(b, i + 3) - 256 ELSE At(b, i + 3)) * 16777216
    + (At(b, i) + 256 * At(b, i + 1) + 65536 * At(b, i + 2))

\* the decoding options of ble_kegscale_reader.py at their defaults
DefaultArgs ==
    [raw_index |-> 15, batt_index |-> 3, temp_index |-> 5,
     endian |-> "little", temp_signed |-> TRUE]

\* frame layout of fe_weight_reader.py
FRAME_INDEX == 16

FRAME_FE == 254

RAW_INDEX == 12

\* What a call gives: the value returned, or the exception raised
Returned(v) == [exc |-> "", ret |-> Some(v)]

Raised(e) == [exc |-> e, ret |-> None]

\* kegmaster_reader_auto_tare.py
parse_fields(d) ==
    Returned([temp_c |-> IF Len(d) > 5 THEN Some(FRat(At(d, 5), 10)) ELSE None,
              seq    |-> IF Len(d) > 9 THEN Some(At(d, 9)) ELSE None,
              raw32  |-> IF Len(d) > 16 THEN Some(S32LE(d, 13)) ELSE None,
              status |-> IF Len(d) > 17 THEN Some(U16LE(d, 16)) ELSE None])

\* ble_kegscale_reader.py
parse_service_data(sd, a) ==
    IF Len(sd) < 2 THEN Raised("ValueError")
    ELSE IF a.raw_index + 1 >= Len(sd) THEN Raised("ValueError")
    ELSE LET temp_raw_le == IF a.temp_index + 1 < Len(sd)
                            THEN (IF a.temp_signed THEN S16LE(sd, a.temp_index)
                                                   ELSE U16LE(sd, a.temp_index))
                            ELSE 0
         IN  Returned([batt_raw |-> IF a.batt_index < Len(sd) THEN At(sd, a.batt_index) ELSE 0,
                       temp_raw |-> temp_raw_le,
                       temp_c   |-> IF a.temp_index + 1 < Len(sd)
                                    THEN FRat(temp_raw_le, 10) ELSE FZero,
                       raw_u16  |-> IF a.endian = "little" THEN U16LE(sd, a.raw_index)
                                                           ELSE U16BE(sd, a.raw_index),
                       b_raw0   |-> At(sd, a.raw_index),
                       b_raw1   |-> At(sd, a.raw_index + 1),
                       len      |-> Len(sd)])

\* ble_kegscale_scanner.py; the 32-bit seq is kept as its two 16-bit halves
decode_payload(payload) ==
    IF Len(payload) # 17 THEN Raised("ValueError")
    ELSE Returned([accelerated    |-> At(payload, 0) % 2 = 1,
                   battery_pct    |-> At(payload, 3),
                   temp_c         |-> FRat(At(payload, 5), 10),
                   seq            |-> <<U16BE(payload, 6), U16BE(payload, 8)>>,
                   weight_raw_u16 |-> U16BE(payload, 12),
                   state_code_u16 |-> U16BE(payload, 14),
                   checksum_u8    |-> At(payload, 16)])

\* fe_weight_reader.py; a frame that is not an FE frame gives None
parse_sd(sd) ==
    IF Len(sd) < 17 THEN [exc |-> "", ret |-> None]
    ELSE IF At(sd, FRAME_INDEX) # FRAME_FE THEN [exc |-> "", ret |-> None]
    ELSE Returned([frame  |-> At(sd, FRAME_INDEX),
                   raw    |-> U16LE(sd, RAW_INDEX),
                   batt   |-> IF Len(sd) > 3 THEN Some(At(sd, 3)) ELSE None,
                   temp_c |-> IF Len(sd) >= 7 THEN Some(FRat(U16LE(sd, 5), 10)) ELSE None])

(***************************************************************************)
(* The stability gate and the smoothing of ble_kegscale_reader.py.  A      *)
(* threshold t given on the command line is kept as a pair <<n, d>> with   *)
(* t = n / d, d > 0; FOfRat gives its float.                               *)
(***************************************************************************)
Max(a, b) == IF a > b THEN a ELSE b

FOfRat(t) == FRat(t[1], t[2])

FAbs(a) == [a EXCEPT !.s = 0]

RECURSIVE SumSeq(_)
SumSeq(q) == IF q = <<>> THEN 0 ELSE q[1] + SumSeq(Tail(q))

\* statistics.pstdev(buf) < t.  pstdev is the square root of the exact
\* variance (n * sum(d^2) - sum(d)^2) / n^2, d the distances to buf[1]; as
\* the variances of n integers are 1 / n^2 apart, rounding the root cannot
\* move it across t, and the test is the one on the squares.
PstdevLess(buf, t) ==
    LET n  == Len(buf)
        dv == [i \in 1..n |-> buf[i] - buf[1]]
        s1 == SumSeq(dv)
        s2 == SumSeq([i \in 1..n |-> dv[i] * dv[i]])
    IN  /\ t[1] > 0
        /\ ((n * s2) - (s1 * s1)) * (t[2] * t[2]) < (t[1] * t[1]) * (n * n)

\* the slope test of the gate
SlopeLess(buf, slope_thresh) ==
    FLt(FAbs(FRat(buf[Len(buf)] - buf[1], Max(1, Len(buf) - 1))), FOfRat(slope_thresh))

\* the gate without its test of the length of the ring
stable_anylen(buf, maxlen, s_thresh, slope_thresh) ==
    PstdevLess(buf, s_thresh) /\ SlopeLess(buf, slope_thresh)

\* the gate with <= for < in its test of the length of the ring
stable_lenle(buf, maxlen, s_thresh, slope_thresh) ==
    IF Len(buf) <= maxlen THEN FALSE
    ELSE PstdevLess(buf, s_thresh) /\ SlopeLess(buf, slope_thresh)

\* the gate with slope for abs(slope)
stable_noabs(buf, maxlen, s_thresh, slope_thresh) ==
    IF Len(buf) < maxlen THEN FALSE
    ELSE /\ PstdevLess(buf, s_thresh)
         /\ FLt(FRat(buf[Len(buf)] - buf[1], Max(1, Len(buf) - 1)), FOfRat(slope_thresh))

\* the gate without its slope test
stable_sdonly(buf, maxlen, s_thresh, slope_thresh) ==
    IF Len(buf) < maxlen THEN FALSE
    ELSE PstdevLess(buf, s_thresh)

stable(buf, maxlen, s_thresh, slope_thresh) ==
    IF Len(buf) < maxlen THEN FALSE
    ELSE PstdevLess(buf, s_thresh) /\ SlopeLess(buf, slope_thresh)

\* the k-th smallest element of buf
Kth(buf, k) ==
    CHOOSE x \in {buf[i] : i \in 1..Len(buf)} :
       /\ Cardinality({i \in 1..Len(buf) : buf[i] < x}) < k
       /\ Cardinality({i \in 1..Len(buf) : buf[i] <= x}) >= k

\* statistics.median(buf), as a float
median(buf) ==
    IF Len(buf) % 2 = 1 THEN FInt(Kth(buf, (Len(buf) + 1) \div 2))
    ELSE FRat(Kth(buf, Len(buf) \div 2) + Kth(buf, Len(buf) \div 2 + 1), 2)

\* deque(maxlen = cap).append(x)
Append_deque(buf, cap, x) ==
    IF Len(buf) < cap THEN Append(buf, x) ELSE Append(Tail(buf), x)

\* x >> n
Shr(x, n) == x \div Pow2(n)

(***************************************************************************)
(* Calibration: the representative raw value of a capture, the two-point   *)
(* fit and the calibration file.  A JSON object is a function from its     *)
(* keys; a file system maps a path to None (no file) or Some(object).      *)
(***************************************************************************)
\* the value of a natural number of at most 3 limbs
BToNat(a) == Limb(a, 1) + Base * Limb(a, 2) + Base * Base * Limb(a, 3)

\* round(x) of a float x >= 0 with -60 < x.e: to the nearest integer, ties
\* to the even one
FRoundNat(x) ==
    IF x.e >= 0 THEN BToNat(BShl(x.m, x.e))
    ELSE IF BCmp(BLow(x.m, -x.e), BShl(<<1>>, (-x.e) - 1)) > 0
            \/ (BCmp(BLow(x.m, -x.e), BShl(<<1>>, (-x.e) - 1)) = 0 /\ BOdd(BShr(x.m, -x.e)))
         THEN BToNat(BShr(x.m, -x.e)) + 1
         ELSE BToNat(BShr(x.m, -x.e))

\* int(round(x))
IntRound(x) == IF x.m = <<>> THEN 0 ELSE IF x.s = 1 THEN -FRoundNat(x) ELSE FRoundNat(x)

\* collect_mean_raw with an empty window giving 0
collect_mean_raw_zero(vals) ==
    IF vals = <<>> THEN Returned(0)
    ELSE Returned(IntRound(FRat(SumSeq(vals), Len(vals))))

\* ble_kegscale_reader.py: the raw values appended during the window
collect_mean_raw(vals) ==
    IF vals = <<>> THEN Raised("RuntimeError")
    ELSE Returned(IntRound(FRat(SumSeq(vals), Len(vals))))

\* scan_collect_avg refusing a window of fewer than 3 values
scan_collect_avg_min3(vals) ==
    IF Len(vals) < 3 THEN Raised("RuntimeError")
    ELSE Returned(FRat(SumSeq(vals), Len(vals)))

\* fe_weight_reader.py
scan_collect_avg(vals) ==
    IF vals = <<>> THEN Raised("RuntimeError")
    ELSE Returned(FRat(SumSeq(vals), Len(vals)))

\* _robust_center as the arithmetic mean
robust_center_mean(values) == FRat(SumSeq(values), Len(values))

\* rpi_ble_scanner.py, for a capture that is not empty
robust_center(values) ==
    IF Len(values) % 2 = 1 THEN FInt(Kth(values, (Len(values) + 1) \div 2))
    ELSE FMul(FRat(1, 2), FInt(Kth(values, Len(values) \div 2)
                               + Kth(values, Len(values) \div 2 + 1)))

\* the test for a zero delta, with one that never finds it
NoDelta_never(x, y) == FALSE

NoDelta(x, y) == x = y

\* slope and intercept from the divisor d = r1 - r0 and the float r0; a
\* division by 0.0 raises ZeroDivisionError
FitFrom_swapped(known, d, r0) ==
    IF d.m = <<>> THEN Raised("ZeroDivisionError")
    ELSE Returned([slope |-> FDiv(known, FNeg(d)),
                   intercept |-> FMul(FNeg(FDiv(known, FNeg(d))), r0)])

FitFrom(known, d, r0) ==
    IF d.m = <<>> THEN Raised("ZeroDivisionError")
    ELSE Returned([slope |-> FDiv(known, d),
                   intercept |-> FMul(FNeg(FDiv(known, d)), r0)])

\* ble_kegscale_reader.calibrate, lines 278-282, for the ints R0 and R1
fit_ble(R0, R1, known) ==
    IF NoDelta(R1, R0) THEN Raised("RuntimeError")
    ELSE FitFrom(known, FInt(R1 - R0), FInt(R0))

\* fe_weight_reader.calibrate, lines 88-91, for the floats r0 and r1
fit_fe(r0, r1, known) ==
    IF NoDelta(r1, r0) THEN Raised("RuntimeError")
    ELSE FitFrom(known, FSub(r1, r0), r0)

\* rpi_ble_scanner.run_calibration, lines 177-182: a zero delta is reported
\* and the function returns
fit_rpi(R0, R1, known) ==
    IF NoDelta(FSub(R0, R1), FZero) THEN Raised("ZeroDelta")
    ELSE IF FSub(R0, R1).m = <<>> THEN Raised("ZeroDivisionError")
    ELSE Returned([scale |-> FDiv(known, FSub(R0, R1)), tare |-> IntRound(R0)])

\* slope * raw + intercept
Apply(sl, ic, raw) == FAdd(FMul(sl, raw), ic)

EmptyDict == <<>>

\* cal.get(k)
Get(d, k) == IF k \in DOMAIN d THEN d[k] ELSE None

\* cal.update(u)
Update(d, u) == [k \in DOMAIN d \cup DOMAIN u |-> IF k \in DOMAIN u THEN u[k] ELSE d[k]]

\* load_cal(path) on the file system fs
load_cal(fs, path) ==
    IF path = "" THEN EmptyDict
    ELSE IF fs[path] = None THEN EmptyDict
    ELSE fs[path][1]

\* save_cal(path, cal)
save_cal(fs, path, cal) == [fs EXCEPT ![path] = Some(cal)]

\* the object calibrate of ble_kegscale_reader.py saves, for the fit f
cal_ble(fs, load_path, save_path, f) ==
    Update(load_cal(fs, IF load_path # "" THEN load_path ELSE save_path),
           [slope |-> f.slope, intercept |-> f.intercept,
            parser |-> [endian |-> "little", raw_bytes |-> <<15, 16>>, raw_shift |-> 0,
                        uuid |-> "0000e4be"],
            batt_map |-> Get(load_cal(fs, IF load_path # "" THEN load_path ELSE save_path),
                             "batt_map"),
            temp_map |-> Get(load_cal(fs, IF load_path # "" THEN load_path ELSE save_path),
                             "temp_map"),
            updated |-> "now"])

\* the object calibrate of fe_weight_reader.py saves
cal_fe(f) ==
    [slope |-> f.slope, intercept |-> f.intercept,
     parser |-> [uuid |-> "0000e4be", frame |-> FRAME_FE, raw_index |-> RAW_INDEX,
                 endian |-> "little"]]

(***************************************************************************)
(* State.                                                                  *)
(*   data, decoder, args, res : a received frame, the decoder applied to   *)
(*                        it, the options it was called with and what the  *)
(*                        call gave                                        *)
(*   live_read of ble_kegscale_reader.py:                                  *)
(*   opts               : the command-line options of the run              *)
(*   slope, intercept   : cal.get("slope"), cal.get("intercept")           *)
(*   displayed_kg, zero_offset, raw_buf : the closure state of on_detect   *)
(*   raw_med, kg_zeroed, commit : the locals of the last frame handled     *)
(*   raws, gate         : the raw values appended so far and, for each,    *)
(*                        what the stability gate returned                 *)
(*   live               : where the reader is: "idle" when none runs,      *)
(*                        "start" before load_cal, "listening" once the    *)
(*                        scanner runs, "raised" when load_cal raised      *)
(***************************************************************************)
VARIABLES data, decoder, args, res,
          opts, slope, intercept, displayed_kg, zero_offset, raw_buf,
          raw_med, kg_now, kg_zeroed, commit, raws, gate, adv, live,
          window, dynamic_tare, is_taring, tare_readings,
          baselines, K, learned_k, kg_pred, tare_json, k_json,
          script, cargs, pc, empty_vals, loaded_vals, R0, R1, outcome, disk, disk0,
          clock

decVars == <<data, decoder, args, res>>

\* the state of the callback of kegmaster_reader_auto_tare.py
kmVars == <<window, dynamic_tare, is_taring, tare_readings>>

\* the state of main of ble_kegscale_scanner_tare.py: the baseline of each
\* state code, K, whether K was learned in this run, the weight_kg of the last
\* record, and the files of --tare-file and --k-file
tareVars == <<baselines, K, learned_k, kg_pred, tare_json, k_json>>

liveVars == <<opts, slope, intercept, displayed_kg, zero_offset, raw_buf,
              raw_med, kg_now, kg_zeroed, commit, raws, gate, adv, live, kmVars, tareVars>>

\* the state codes of the frames
States == {1, 2}

\* main of ble_kegscale_scanner_tare.py has not run
TareIdle ==
    /\ baselines = [s \in States |-> None]
    /\ K = None
    /\ learned_k = FALSE
    /\ kg_pred = None
    /\ tare_json = None
    /\ k_json = None

\* make_callback has not been called
KmIdle ==
    /\ window = <<>>
    /\ dynamic_tare = None
    /\ is_taring = FALSE
    /\ tare_readings = <<>>

calVars == <<script, cargs, pc, empty_vals, loaded_vals, R0, R1, outcome, disk, disk0,
             clock>>

vars == <<decVars, liveVars, calVars>>

\* the calibration files
Paths == {"keg_cal.json", "alt.json"}

\* no calibration under way, no calibration file
CalIdle ==
    /\ script = ""
    /\ cargs = [known |-> FZero, load_cal |-> "", save_cal |-> ""]
    /\ pc = "idle"
    /\ empty_vals = <<>>
    /\ loaded_vals = <<>>
    /\ R0 = None
    /\ R1 = None
    /\ outcome = [exc |-> "", ret |-> None]
    /\ disk = [p \in Paths |-> None]
    /\ disk0 = [p \in Paths |-> None]
    /\ clock = 0

\* live_read before it has started
LiveIdle ==
    /\ opts = [smooth |-> 5]
    /\ slope = None
    /\ intercept = None
    /\ displayed_kg = FZero
    /\ zero_offset = FZero
    /\ raw_buf = <<>>
    /\ raw_med = FZero
    /\ kg_now = None
    /\ kg_zeroed = FZero
    /\ commit = FALSE
    /\ raws = <<>>
    /\ gate = <<>>
    /\ adv = [address |-> "", sd |-> <<>>]
    /\ live = "idle"
    /\ KmIdle
    /\ TareIdle

(***************************************************************************)
(* The decoders on bounded frames: every prefix, up to MaxFrameLen bytes,  *)
(* of three advertisements (a usual FE frame, an all-zero one, one with    *)
(* the high bits set).  parse_service_data is called with the default      *)
(* options, with the raw field moved to the front, and with the other      *)
(* byte order and an unsigned temperature.                                 *)
(***************************************************************************)
MaxFrameLen == 18

Templates ==
    << <<32, 0, 0, 90, 0, 215, 0, 0, 0, 7, 0, 0, 136, 19, 0, 136, 254, 1>>,
       <<0, 0, 0, 0, 0, 0, 0, 0, 0, 0, 0, 0, 0, 0, 0, 0, 0, 0>>,
       <<33, 255, 255, 255, 255, 251, 255, 128, 1, 200, 255, 255, 255, 255, 255, 255, 255, 255>> >>

Frame(t, n) == [i \in 1..n |-> IF i <= Len(Templates[t]) THEN Templates[t][i] ELSE 0]

Frames == {Frame(t, n) : t \in 1..Len(Templates), n \in 0..MaxFrameLen}

ArgsSet ==
    { DefaultArgs,
      [DefaultArgs EXCEPT !.raw_index = 1],
      [DefaultArgs EXCEPT !.endian = "big", !.temp_signed = FALSE] }

DecodeIdle ==
    /\ data = <<>>
    /\ decoder = ""
    /\ args = DefaultArgs
    /\ res = [exc |-> "", ret |-> None]

InitDecode ==
    /\ LiveIdle
    /\ CalIdle
    /\ data \in Frames
    /\ decoder = ""
    /\ args = DefaultArgs
    /\ res = [exc |-> "", ret |-> None]

ParseFields ==
    /\ decoder = ""
    /\ decoder' = "parse_fields"
    /\ res' = parse_fields(data)
    /\ UNCHANGED <<data, args, liveVars, calVars>>

ParseServiceData ==
    /\ decoder = ""
    /\ \E a \in ArgsSet :
          /\ args' = a
          /\ res' = parse_service_data(data, a)
    /\ decoder' = "parse_service_data"
    /\ UNCHANGED <<data, liveVars, calVars>>

DecodePayload ==
    /\ decoder = ""
    /\ decoder' = "decode_payload"
    /\ res' = decode_payload(data)
    /\ UNCHANGED <<data, args, liveVars, calVars>>

ParseSd ==
    /\ decoder = ""
    /\ decoder' = "parse_sd"
    /\ res' = parse_sd(data)
    /\ UNCHANGED <<data, args, liveVars, calVars>>

NextDecode == ParseFields \/ ParseServiceData \/ DecodePayload \/ ParseSd

SpecDecode == InitDecode /\ [][NextDecode]_vars

(***************************************************************************)
(* live_read of ble_kegscale_reader.py.  A run has its options and its     *)
(* calibration file (cal); on_detect is called once per advertisement.     *)
(* The advertisements carry a first raw value and then raw values that     *)
(* stay, rise or fall by a step, in any order; empty and short             *)
(* advertisements arrive in between.  A run is followed until the ring     *)
(* has been full for MaxExtra more frames.  The thresholds --stable-sd and  *)
(* --stable-slope of the runs are positive, as their defaults are.          *)
(***************************************************************************)
MaxExtra == 1

LiveOptions ==
    { [reader |-> "ble",
       smooth |-> 5, stable_sd |-> <<4, 1>>, stable_slope |-> <<3, 2>>, zero |-> FALSE,
       mac |-> "", raw_shift |-> 0, dec |-> [DefaultArgs EXCEPT !.raw_index = 12],
       cal |-> [slope |-> Some(FRat(1, 1000)), intercept |-> Some(FZero)]],
      [reader |-> "ble",
       smooth |-> 5, stable_sd |-> <<4, 1>>, stable_slope |-> <<1, 2>>, zero |-> FALSE,
       mac |-> "5c013b3592ee", raw_shift |-> 0, dec |-> DefaultArgs,
       cal |-> [slope |-> Some(FRat(153, 100)), intercept |-> Some(FRat(-7, 2))]],
      [reader |-> "ble",
       smooth |-> 3, stable_sd |-> <<4, 1>>, stable_slope |-> <<3, 2>>, zero |-> TRUE,
       mac |-> "", raw_shift |-> 1, dec |-> DefaultArgs,
       cal |-> [slope |-> Some(FRat(153, 100)), intercept |-> Some(FRat(-7, 2))]],
      [reader |-> "ble",
       smooth |-> 2, stable_sd |-> <<1, 2>>, stable_slope |-> <<1, 2>>, zero |-> FALSE,
       mac |-> "5c013b3592ee", raw_shift |-> 0, dec |-> [DefaultArgs EXCEPT !.endian = "big"],
       cal |-> [slope |-> None, intercept |-> None]],
      [reader |-> "ble",
       smooth |-> 3, stable_sd |-> <<4, 1>>, stable_slope |-> <<3, 2>>, zero |-> TRUE,
       mac |-> "5c013b3592ee", raw_shift |-> 0, dec |-> [DefaultArgs EXCEPT !.raw_index = 12],
       cal |-> [slope |-> Some(FRat(1, 1000)), intercept |-> Some(FInt(-5))]] }

FirstRaws == {5000}

Steps == {-2, 0, 1}

\* raw_buf = deque(maxlen=max(3, args.smooth))
Cap(o) == Max(3, o.smooth)

\* an advertisement of 18 bytes whose raw field holds v
LiveFrame(v, a) ==
    [i \in 1..18 |->
       IF i = a.raw_index + 1 THEN (IF a.endian = "little" THEN v % 256 ELSE v \div 256)
       ELSE IF i = a.raw_index + 2 THEN (IF a.endian = "little" THEN v \div 256 ELSE v % 256)
       ELSE 0]

\* the advertisements that may arrive next
NextFrames ==
    { LiveFrame(w * Pow2(opts.raw_shift), opts.dec) :
         w \in IF raws = <<>> THEN FirstRaws ELSE {raws[Len(raws)] + d : d \in Steps} }

BadFrames == { <<>>, Frame(1, 10) }

InitLive ==
    /\ DecodeIdle
    /\ CalIdle
    /\ opts \in LiveOptions
    /\ slope = opts.cal.slope
    /\ intercept = opts.cal.intercept
    /\ displayed_kg = FZero
    /\ zero_offset = FZero
    /\ raw_buf = <<>>
    /\ raw_med = FZero
    /\ kg_now = None
    /\ kg_zeroed = FZero
    /\ commit = FALSE
    /\ raws = <<>>
    /\ gate = <<>>
    /\ adv = [address |-> "", sd |-> <<>>]
    /\ live = "listening"
    /\ KmIdle
    /\ TareIdle

\* kg_now without the intercept
KgNow_nointercept(med) ==
    IF slope # None /\ intercept # None THEN FMul(slope[1], med) ELSE FZero

\* kg_now with the median itself when uncalibrated
KgNow_uncalraw(med) ==
    IF slope # None /\ intercept # None
    THEN FAdd(FMul(slope[1], med), intercept[1])
    ELSE med

\* kg_now for the median med of the ring; 0.0 when uncalibrated
KgNow(med) ==
    IF slope # None /\ intercept # None
    THEN FAdd(FMul(slope[1], med), intercept[1])
    ELSE FZero

\* the body of on_detect past the parse, for the parsed fields
Handle(fields) ==
    LET raw_val == Shr(fields.raw_u16, Max(0, opts.raw_shift))
        buf     == Append_deque(raw_buf, Cap(opts), raw_val)
        med     == median(buf)
        kg      == KgNow(med)
        zo      == IF opts.zero /\ zero_offset = FZero THEN kg ELSE zero_offset
        kgz     == IF opts.zero THEN FMax(FZero, FSub(kg, zo)) ELSE kg
        c       == stable(buf, Cap(opts), opts.stable_sd, opts.stable_slope)
    IN  /\ raw_buf' = buf
        /\ raw_med' = med
        /\ zero_offset' = zo
        /\ kg_now' = Some(kg)
        /\ kg_zeroed' = kgz
        /\ commit' = c
        /\ displayed_kg' = IF c THEN kgz ELSE displayed_kg
        /\ raws' = Append(raws, raw_val)
        /\ gate' = Append(gate, c)

\* what on_detect reads and writes besides the options and the calibration
chanVars == <<displayed_kg, zero_offset, raw_buf, raw_med, kg_now, kg_zeroed, commit,
              raws, gate>>

\* the addresses of the scales in range, as on_detect normalises them
Devices == {"5c013b3592ee", "5c013b3592ef"}

\* on_detect(device, adv) for the address of device and the service data sd
\* of adv: with --mac an advertisement of another address is dropped, an
\* empty sd is dropped, an exception of the parse is caught and changes
\* nothing
on_detect_reset(address, sd) ==
    IF opts.mac # "" /\ address # opts.mac THEN UNCHANGED chanVars
    ELSE IF sd = <<>> THEN UNCHANGED chanVars
    ELSE LET r == parse_service_data(sd, opts.dec)
         IN  IF r.exc # ""
             THEN /\ raw_buf' = <<>>
                  /\ UNCHANGED <<displayed_kg, zero_offset, raw_med, kg_now, kg_zeroed, commit, raws, gate>>
             ELSE Handle(r.ret[1])

on_detect(address, sd) ==
    IF opts.mac # "" /\ address # opts.mac THEN UNCHANGED chanVars
    ELSE IF sd = <<>> THEN UNCHANGED chanVars
    ELSE LET r == parse_service_data(sd, opts.dec)
         IN  IF r.exc # "" THEN UNCHANGED chanVars
             ELSE Handle(r.ret[1])

OnDetect ==
    /\ opts.reader = "ble"
    /\ live = "listening"
    /\ \E address \in Devices :
          \E sd \in BadFrames \cup
                    (IF Len(raws) < Cap(opts) + MaxExtra THEN NextFrames ELSE {}) :
             /\ adv' = [address |-> address, sd |-> sd]
             /\ on_detect(address, sd)
    /\ UNCHANGED <<opts, slope, intercept, live, kmVars, tareVars, decVars, calVars>>

NextLive == OnDetect

SpecLive == InitLive /\ [][NextLive]_vars

(***************************************************************************)
(* live of fe_weight_reader.py: cb is called once per advertisement.  It   *)
(* has no stability gate: every frame that finds the ring full sets the    *)
(* displayed value (commit and gate record that), and zero_offset is None  *)
(* until the first such frame.  SpecReaders runs either reader.            *)
(***************************************************************************)
FeOptions ==
    { [reader |-> "fe", smooth |-> 3, zero |-> TRUE, mac |-> "5c013b3592ee",
       cal |-> [slope |-> Some(FRat(1, 1000)), intercept |-> Some(FZero)]],
      [reader |-> "fe", smooth |-> 1, zero |-> TRUE, mac |-> "5c013b3592ee",
       cal |-> [slope |-> Some(FRat(-4, 1000)), intercept |-> Some(FInt(4))]],
      [reader |-> "fe", smooth |-> 3, zero |-> FALSE, mac |-> "5c013b3592ee",
       cal |-> [slope |-> None, intercept |-> None]] }

\* an FE advertisement of 18 bytes whose raw field holds v
FeFrame(v) ==
    [i \in 1..18 |->
       IF i = RAW_INDEX + 1 THEN v % 256
       ELSE IF i = RAW_INDEX + 2 THEN v \div 256
       ELSE IF i = FRAME_INDEX + 1 THEN FRAME_FE
       ELSE 0]

FeNextFrames ==
    { FeFrame(w) : w \in IF raws = <<>> THEN FirstRaws ELSE {raws[Len(raws)] + d : d \in Steps} }

\* no service data, a short advertisement, one of another frame id
FeBadFrames == { <<>>, Frame(1, 10), Frame(2, 18) }

InitFe ==
    /\ DecodeIdle
    /\ CalIdle
    /\ opts \in FeOptions
    /\ slope = opts.cal.slope
    /\ intercept = opts.cal.intercept
    /\ displayed_kg = FZero
    /\ zero_offset = None
    /\ raw_buf = <<>>
    /\ raw_med = FZero
    /\ kg_now = None
    /\ kg_zeroed = FZero
    /\ commit = FALSE
    /\ raws = <<>>
    /\ gate = <<>>
    /\ adv = [address |-> "", sd |-> <<>>]
    /\ live = "listening"
    /\ KmIdle
    /\ TareIdle

\* the branch of cb for a full ring buf
FeFull(buf, kg) ==
    /\ raw_med' = median(buf)
    /\ kg_now' = Some(kg)
    /\ zero_offset' = IF opts.zero /\ zero_offset = None THEN Some(kg) ELSE zero_offset
    /\ kg_zeroed' = IF opts.zero
                    THEN FMax(FZero, FSub(kg, IF zero_offset = None THEN kg ELSE zero_offset[1]))
                    ELSE kg
    /\ displayed_kg' = kg_zeroed'

\* the body of cb past the parse, for the record rec of parse_sd
FeHandle(rec, buf) ==
    /\ raw_buf' = buf
    /\ raws' = Append(raws, rec.raw)
    /\ commit' = (Len(buf) = Cap(opts))
    /\ gate' = Append(gate, Len(buf) = Cap(opts))
    /\ IF Len(buf) = Cap(opts) THEN FeFull(buf, KgNow(median(buf)))
       ELSE UNCHANGED <<raw_med, kg_now, zero_offset, kg_zeroed, displayed_kg>>

\* cb(device, adv) of live
cb(address, sd) ==
    IF address # opts.mac THEN UNCHANGED chanVars
    ELSE IF sd = <<>> THEN UNCHANGED chanVars
    ELSE IF parse_sd(sd).ret = None THEN UNCHANGED chanVars
    ELSE FeHandle(parse_sd(sd).ret[1],
                  Append_deque(raw_buf, Cap(opts), parse_sd(sd).ret[1].raw))

FeCb ==
    /\ opts.reader = "fe"
    /\ \E address \in Devices :
          \E sd \in FeBadFrames \cup
                    (IF Len(raws) < Cap(opts) + MaxExtra THEN FeNextFrames ELSE {}) :
             /\ adv' = [address |-> address, sd |-> sd]
             /\ cb(address, sd)
    /\ UNCHANGED <<opts, slope, intercept, live, kmVars, tareVars, decVars, calVars>>

(***************************************************************************)
(* The callback of kegmaster_reader_auto_tare.py, for advertisements with  *)
(* one service data entry.  It takes the median of the first tare_samples  *)
(* raw values as the tare unless --manual-tare gives one, then shows the   *)
(* mean of the last values (tare - raw32) * scale of its window:           *)
(* displayed_kg is the mean it prints, kg_now the value of the frame.      *)
(***************************************************************************)
KmOptions ==
    { [reader |-> "km", mac |-> "5c013b3592ee", scale |-> FRat(1, 1000), smooth |-> 2,
       manual_tare |-> None, tare_samples |-> 2],
      [reader |-> "km", mac |-> "5c013b3592ee", scale |-> FRat(1, 1000), smooth |-> 0,
       manual_tare |-> Some(5001), tare_samples |-> 5] }

\* an advertisement of 18 bytes whose raw32 field holds v >= 0
KmFrame(v) == [i \in 1..18 |-> IF i \in 14..17 THEN (v \div Pow2(8 * (i - 14))) % 256 ELSE 0]

KmNextFrames ==
    { KmFrame(w) : w \in IF raws = <<>> THEN FirstRaws ELSE {raws[Len(raws)] + d : d \in Steps} }

\* the frames one run is followed for
KmFrames(o) == (IF o.manual_tare = None THEN o.tare_samples ELSE 0) + Max(1, o.smooth) + MaxExtra

InitKm ==
    /\ DecodeIdle
    /\ CalIdle
    /\ opts \in KmOptions
    /\ slope = None
    /\ intercept = None
    /\ displayed_kg = FZero
    /\ zero_offset = FZero
    /\ raw_buf = <<>>
    /\ raw_med = FZero
    /\ kg_now = None
    /\ kg_zeroed = FZero
    /\ commit = FALSE
    /\ raws = <<>>
    /\ gate = <<>>
    /\ adv = [address |-> "", sd |-> <<>>]
    /\ live = "listening"
    /\ window = <<>>
    /\ dynamic_tare = opts.manual_tare
    /\ is_taring = (opts.manual_tare = None)
    /\ tare_readings = <<>>
    /\ TareIdle

\* sum(window), from the int 0
RECURSIVE FSum(_)
FSum(w) == IF w = <<>> THEN FZero ELSE FAdd(FSum(SubSeq(w, 1, Len(w) - 1)), w[Len(w)])

\* the list sorted, by insertion
RECURSIVE Sorted(_)
Sorted(q) ==
    IF q = <<>> THEN <<>>
    ELSE LET r == Sorted(Tail(q))
             k == Cardinality({i \in 1..Len(r) : r[i] < q[1]})
         IN  SubSeq(r, 1, k) \o <<q[1]>> \o SubSeq(r, k + 1, Len(r))

\* the tare taken as the smallest reading
KmTare_min(readings) ==
    /\ IF Len(readings) >= opts.tare_samples
       THEN /\ tare_readings' = Sorted(readings)
            /\ dynamic_tare' = Some(Sorted(readings)[1])
            /\ is_taring' = FALSE
       ELSE /\ tare_readings' = readings
            /\ UNCHANGED <<dynamic_tare, is_taring>>
    /\ UNCHANGED <<window, kg_now, displayed_kg>>

\* the branch of the callback while taring, for the readings so far
KmTare(readings) ==
    /\ IF Len(readings) >= opts.tare_samples
       THEN /\ tare_readings' = Sorted(readings)
            /\ dynamic_tare' = Some(Sorted(readings)[Len(readings) \div 2 + 1])
            /\ is_taring' = FALSE
       ELSE /\ tare_readings' = readings
            /\ UNCHANGED <<dynamic_tare, is_taring>>
    /\ UNCHANGED <<window, kg_now, displayed_kg>>

\* the branch of the callback once the tare is known, for the window w
KmWeigh(kg_inst, w) ==
    /\ window' = w
    /\ kg_now' = Some(kg_inst)
    /\ displayed_kg' = FDiv(FSum(w), FInt(Len(w)))
    /\ UNCHANGED <<dynamic_tare, is_taring, tare_readings>>

\* the body of the callback for the fields f of a frame with a raw32
KmHandle(f) ==
    /\ raws' = Append(raws, f.raw32[1])
    /\ IF is_taring THEN KmTare(Append(tare_readings, f.raw32[1]))
       ELSE KmWeigh(FMul(FInt(dynamic_tare[1] - f.raw32[1]), opts.scale),
                    Append_deque(window, Max(1, opts.smooth),
                                 FMul(FInt(dynamic_tare[1] - f.raw32[1]), opts.scale)))

\* what the callback reads and writes
kmChan == <<raws, kg_now, displayed_kg, kmVars>>

\* cb(device, adv) of make_callback; sd is None for no service data
km_cb(address, sd) ==
    IF address # opts.mac THEN UNCHANGED kmChan
    ELSE IF sd = <<>> THEN UNCHANGED kmChan
    ELSE IF parse_fields(sd).ret[1].raw32 = None THEN UNCHANGED kmChan
    ELSE KmHandle(parse_fields(sd).ret[1])

KmCb ==
    /\ opts.reader = "km"
    /\ \E address \in Devices :
          \E sd \in BadFrames \cup (IF Len(raws) < KmFrames(opts) THEN KmNextFrames ELSE {}) :
             /\ adv' = [address |-> address, sd |-> sd]
             /\ km_cb(address, sd)
    /\ UNCHANGED <<opts, slope, intercept, zero_offset, raw_buf, raw_med, kg_zeroed, commit,
                   gate, live, tareVars, decVars, calVars>>

InitReaders == InitLive \/ InitFe \/ InitKm

NextReaders == OnDetect \/ FeCb \/ KmCb

SpecReaders == InitReaders /\ [][NextReaders]_vars

(***************************************************************************)
(* One calibration attempt of ble_kegscale_reader.py ("ble"),              *)
(* fe_weight_reader.py ("fe") or rpi_ble_scanner.py ("rpi"): the capture   *)
(* with the scale empty, then the one with the known mass, the fit and     *)
(* the save.  A capture is the list of raw values its window appended: a   *)
(* prefix, of up to MaxSamples values, of one of three streams.  The       *)
(* files are those an earlier calibration, or the user, left.              *)
(***************************************************************************)
MaxSamples == 3

Streams ==
    << <<1000, 1001, 999, 1000>>,
       <<500, 500, 501, 498>>,
       <<993, 1003, 1001, 1003>> >>

Captures ==
    { [i \in 1..n |-> IF i <= Len(Streams[t]) THEN Streams[t][i] ELSE Streams[t][1]] :
         t \in 1..Len(Streams), n \in 0..MaxSamples }

CalOptions ==
    { [script |-> "ble", known |-> FRat(2, 1), load_cal |-> "", save_cal |-> "keg_cal.json"],
      [script |-> "ble", known |-> FRat(1, 10), load_cal |-> "", save_cal |-> "keg_cal.json"],
      [script |-> "ble", known |-> FRat(2, 1), load_cal |-> "alt.json",
       save_cal |-> "keg_cal.json"],
      [script |-> "ble", known |-> FRat(2, 1), load_cal |-> "", save_cal |-> ""],
      [script |-> "fe", known |-> FRat(2, 1), load_cal |-> "", save_cal |-> "keg_cal.json"],
      [script |-> "fe", known |-> FRat(1, 10), load_cal |-> "", save_cal |-> "keg_cal.json"],
      [script |-> "rpi", known |-> FRat(2, 1), load_cal |-> "", save_cal |-> ""] }

\* a file as calibrate of ble_kegscale_reader.py writes it, with the maps of
\* map_batt and map_temp filled in
BleFile(bm, tm) ==
    [slope |-> FRat(153, 100000), intercept |-> FRat(-7, 2),
     parser |-> [endian |-> "little", raw_bytes |-> <<15, 16>>, raw_shift |-> 0,
                 uuid |-> "0000e4be"],
     batt_map |-> bm, temp_map |-> tm, updated |-> "earlier"]

Disks ==
    { [p \in Paths |-> None],
      [p \in Paths |->
         IF p = "keg_cal.json"
         THEN Some(BleFile(Some([raw_min |-> 0, raw_max |-> 255]), None))
         ELSE None],
      [p \in Paths |->
         IF p = "keg_cal.json"
         THEN Some(cal_fe([slope |-> FRat(1, 1000), intercept |-> FInt(-1)]))
         ELSE Some(BleFile(None, Some([scale |-> FRat(1, 10), offset |-> FZero])))] }

InitCal ==
    /\ DecodeIdle
    /\ LiveIdle
    /\ \E o \in CalOptions :
          /\ script = o.script
          /\ cargs = [known |-> o.known, load_cal |-> o.load_cal, save_cal |-> o.save_cal]
    /\ pc = "empty"
    /\ empty_vals = <<>>
    /\ loaded_vals = <<>>
    /\ R0 = None
    /\ R1 = None
    /\ outcome = [exc |-> "", ret |-> None]
    /\ disk \in Disks
    /\ disk0 = disk
    /\ clock = 0

\* the representative value of a capture; run_calibration reports an empty
\* capture and returns
Capture(sc, vals) ==
    IF sc = "ble" THEN collect_mean_raw(vals)
    ELSE IF sc = "fe" THEN scan_collect_avg(vals)
    ELSE IF vals = <<>> THEN Raised("NoSamples")
    ELSE Returned(robust_center(vals))

Fit(sc, r0, r1, known) ==
    IF sc = "ble" THEN fit_ble(r0, r1, known)
    ELSE IF sc = "fe" THEN fit_fe(r0, r1, known)
    ELSE fit_rpi(r0, r1, known)

\* what the attempt returns (run_calibration: prints) for the fit f
CalOf(sc, fs, a, f) ==
    IF sc = "ble" THEN cal_ble(fs, a.load_cal, a.save_cal, f)
    ELSE IF sc = "fe" THEN cal_fe(f)
    ELSE f

\* the files after the attempt; run_calibration writes none
Persist(sc, fs, a, cal) ==
    IF sc = "rpi" \/ a.save_cal = "" THEN fs ELSE save_cal(fs, a.save_cal, cal)

\* a failure that starts the attempt again
Fail_retry(r) ==
    /\ pc' = "empty"
    /\ outcome' = r
    /\ disk' = disk

Fail(r) ==
    /\ pc' = "failed"
    /\ outcome' = r
    /\ disk' = disk

Finish(f) ==
    /\ pc' = "done"
    /\ outcome' = Returned(CalOf(script, disk, cargs, f))
    /\ disk' = Persist(script, disk, cargs, CalOf(script, disk, cargs, f))

Computed(r) == IF r.exc # "" THEN Fail(r) ELSE Finish(r.ret[1])

Loaded(c) ==
    IF c.exc # "" THEN R1' = None /\ Fail(c)
    ELSE R1' = c.ret /\ Computed(Fit(script, R0[1], c.ret[1], cargs.known))

Emptied(c) ==
    IF c.exc # "" THEN R0' = None /\ Fail(c)
    ELSE R0' = c.ret /\ pc' = "loaded" /\ UNCHANGED <<outcome, disk>>

CaptureEmpty ==
    /\ pc = "empty"
    /\ \E vals \in Captures :
          /\ empty_vals' = vals
          /\ Emptied(Capture(script, vals))
    /\ UNCHANGED <<script, cargs, loaded_vals, R1, disk0, clock, decVars, liveVars>>

CaptureLoaded ==
    /\ pc = "loaded"
    /\ \E vals \in Captures :
          /\ loaded_vals' = vals
          /\ Loaded(Capture(script, vals))
    /\ UNCHANGED <<script, cargs, empty_vals, R0, disk0, clock, decVars, liveVars>>

NextCal == CaptureEmpty \/ CaptureLoaded

SpecCal == InitCal /\ [][NextCal]_vars

(***************************************************************************)
(* The capture with the scale empty, advertisement by advertisement.  The  *)
(* clock counts the time slept: the seconds of the one sleep of            *)
(* run_scanner and scan_collect_avg, the wake-ups of the loop of           *)
(* _collect_weight_raw, which also stops at a count of samples.  An        *)
(* advertisement gives the callback a raw value to append, or nothing (an  *)
(* other address, no service data, a frame that does not parse, a status   *)
(* that is not good).  The scanner's timer fires: the sleep is fair.       *)
(***************************************************************************)
MaxClock == 3

MaxArrivals == 3

CaptureOptions ==
    { [script |-> "ble", seconds |-> 2, samples |-> 0],
      [script |-> "fe", seconds |-> 1, samples |-> 0],
      [script |-> "rpi", seconds |-> 2, samples |-> 2],
      [script |-> "rpi", seconds |-> 1, samples |-> 3] }

Arrivals == {None, Some(1000), Some(1001), Some(993)}

InitCapture ==
    /\ DecodeIdle
    /\ LiveIdle
    /\ \E o \in CaptureOptions :
          /\ script = o.script
          /\ cargs = [seconds |-> o.seconds, samples |-> o.samples]
    /\ pc = "empty"
    /\ empty_vals = <<>>
    /\ loaded_vals = <<>>
    /\ R0 = None
    /\ R1 = None
    /\ outcome = [exc |-> "", ret |-> None]
    /\ disk = [p \in Paths |-> None]
    /\ disk0 = disk
    /\ clock = 0

\* the capture goes on with no limit of time
Waiting_notimeout(sc, buf, t, a) == sc = "rpi" => Len(buf) < a.samples

\* the capture goes on: the sleep has time left and, in _collect_weight_raw,
\* the samples are fewer than asked
Waiting(sc, buf, t, a) ==
    IF sc = "rpi" THEN Len(buf) < a.samples /\ t < a.seconds
    ELSE t < a.seconds

\* the detection callback of a capture
CapDetect ==
    /\ pc = "empty"
    /\ Len(empty_vals) < MaxArrivals
    /\ \E x \in Arrivals :
          empty_vals' = IF x = None THEN empty_vals ELSE Append(empty_vals, x[1])
    /\ UNCHANGED <<script, cargs, pc, loaded_vals, R0, R1, outcome, disk, disk0, clock,
                   decVars, liveVars>>

\* the capture sleeps on, or stops the scanner and gives its value
CapWake ==
    /\ pc = "empty"
    /\ IF Waiting(script, empty_vals, clock, cargs)
       THEN /\ clock < MaxClock
            /\ clock' = clock + 1
            /\ UNCHANGED <<pc, R0, outcome, disk>>
       ELSE /\ Emptied(Capture(script, empty_vals))
            /\ clock' = clock
    /\ UNCHANGED <<script, cargs, empty_vals, loaded_vals, R1, disk0, decVars, liveVars>>

NextCapture == CapDetect \/ CapWake

\* a step of CapWake by what it does to pc and clock: every step of
\* NextCapture that changes either is one, and it is enabled when CapWake is
WakeStep ==
    /\ pc = "empty"
    /\ IF Waiting(script, empty_vals, clock, cargs)
       THEN clock < MaxClock /\ clock' = clock + 1 /\ pc' = pc
       ELSE pc' \in {"loaded", "failed"} /\ clock' = clock

SpecCapture == InitCapture /\ [][NextCapture]_vars /\ WF_<<pc, clock>>(WakeStep)

(***************************************************************************)
(* A recalibration while a reader starts and reads: main of                *)
(* ble_kegscale_reader.py runs calibrate or live_read, so the two are two  *)
(* runs of the script on one calibration file.  save_cal writes with       *)
(* Path.write_text: the file is opened for writing, which empties it, and  *)
(* the text is written afterwards; load_cal of a reader that starts in     *)
(* between finds text that is no JSON object and json.load raises.         *)
(* live_read calls load_cal once, before it starts the scanner.            *)
(***************************************************************************)
SwapOptions ==
    { [reader |-> "ble",
       smooth |-> 3, stable_sd |-> <<4, 1>>, stable_slope |-> <<3, 2>>, zero |-> FALSE,
       mac |-> "5c013b3592ee", raw_shift |-> 0, dec |-> [DefaultArgs EXCEPT !.raw_index = 12],
       load_cal |-> "", save_cal |-> "keg_cal.json"],
      [reader |-> "ble",
       smooth |-> 1, stable_sd |-> <<4, 1>>, stable_slope |-> <<3, 2>>, zero |-> TRUE,
       mac |-> "", raw_shift |-> 0, dec |-> [DefaultArgs EXCEPT !.raw_index = 12],
       load_cal |-> "keg_cal.json", save_cal |-> "alt.json"] }

\* the frames a reader is followed for
MaxSwapFrames == 1

\* a file that holds the beginning of a text, or none of it
Torn == [torn |-> TRUE]

\* the file once write_text has written a part of the text for cal, with the
\* new slope put into the object the file held
open_w_inplace(fs, path, cal) ==
    [fs EXCEPT ![path] = Some(Update(load_cal(fs, path), [slope |-> cal.slope]))]

\* the file once write_text has opened it for writing
open_w(fs, path, cal) == [fs EXCEPT ![path] = Some(Torn)]

\* cal.get(k) for a key that holds a number when it is there
GetNum(d, k) == IF k \in DOMAIN d THEN Some(d[k]) ELSE None

\* args.load_cal or args.save_cal
CalPath(a) == IF a.load_cal # "" THEN a.load_cal ELSE a.save_cal

InitSwap ==
    /\ DecodeIdle
    /\ script = "ble"
    /\ cargs = [known |-> FRat(2, 1), load_cal |-> "", save_cal |-> "keg_cal.json"]
    /\ pc = "empty"
    /\ empty_vals = <<>>
    /\ loaded_vals = <<>>
    /\ R0 = None
    /\ R1 = None
    /\ outcome = [exc |-> "", ret |-> None]
    /\ disk \in Disks
    /\ disk0 = disk
    /\ clock = 0
    /\ opts \in SwapOptions
    /\ slope = None
    /\ intercept = None
    /\ displayed_kg = FZero
    /\ zero_offset = FZero
    /\ raw_buf = <<>>
    /\ raw_med = FZero
    /\ kg_now = None
    /\ kg_zeroed = FZero
    /\ commit = FALSE
    /\ raws = <<>>
    /\ gate = <<>>
    /\ adv = [address |-> "", sd |-> <<>>]
    /\ live = "start"
    /\ KmIdle
    /\ TareIdle

\* calibrate from the fit f on: the object, and save_cal up to the opened file
SaveOpen(f) ==
    /\ outcome' = Returned(CalOf(script, disk, cargs, f))
    /\ IF cargs.save_cal = "" THEN pc' = "done" /\ disk' = disk
       ELSE /\ pc' = "saving"
            /\ disk' = open_w(disk, cargs.save_cal, CalOf(script, disk, cargs, f))

SwapComputed(r) == IF r.exc # "" THEN Fail(r) ELSE SaveOpen(r.ret[1])

SwapLoaded(c) ==
    IF c.exc # "" THEN R1' = None /\ Fail(c)
    ELSE R1' = c.ret /\ SwapComputed(Fit(script, R0[1], c.ret[1], cargs.known))

SwapCaptureLoaded ==
    /\ pc = "loaded"
    /\ \E vals \in Captures :
          /\ loaded_vals' = vals
          /\ SwapLoaded(Capture(script, vals))
    /\ UNCHANGED <<script, cargs, empty_vals, R0, disk0, clock, decVars, liveVars>>

\* the text of save_cal is written
SaveWrite ==
    /\ pc = "saving"
    /\ pc' = "done"
    /\ disk' = save_cal(disk, cargs.save_cal, outcome.ret[1])
    /\ UNCHANGED <<script, cargs, empty_vals, loaded_vals, R0, R1, outcome, disk0, clock,
                   decVars, liveVars>>

\* the first lines of live_read: the file is read once
LoadCal ==
    /\ live = "start"
    /\ IF disk[CalPath(opts)] = Some(Torn)
       THEN /\ live' = "raised"
            /\ UNCHANGED <<slope, intercept>>
       ELSE /\ live' = "listening"
            /\ slope' = GetNum(load_cal(disk, CalPath(opts)), "slope")
            /\ intercept' = GetNum(load_cal(disk, CalPath(opts)), "intercept")
    /\ UNCHANGED <<opts, chanVars, adv, kmVars, tareVars, decVars, calVars>>

\* an advertisement for the reader
SwapDetect ==
    /\ live = "listening"
    /\ Len(raws) < MaxSwapFrames
    /\ \E address \in Devices :
          \E sd \in NextFrames :
             /\ adv' = [address |-> address, sd |-> sd]
             /\ on_detect(address, sd)
    /\ UNCHANGED <<opts, slope, intercept, live, kmVars, tareVars, decVars, calVars>>

NextSwap == CaptureEmpty \/ SwapCaptureLoaded \/ SaveWrite \/ LoadCal \/ SwapDetect

SpecSwap == InitSwap /\ [][NextSwap]_vars

(***************************************************************************)
(* ble_kegscale_scanner_tare.py.  The service data of an advertisement is  *)
(* a dict from UUID strings to byte strings, here the sequence of its      *)
(* items; a string is the sequence of its characters.  detection_callback  *)
(* is called once per advertisement; data, decoder and res record its call *)
(* of decode_payload, raws the raw value of every record it printed.       *)
(***************************************************************************)
\* str.lower() of one character of a UUID
Lower(c) ==
    CASE c = "A" -> "a" [] c = "B" -> "b" [] c = "C" -> "c"
      [] c = "D" -> "d" [] c = "E" -> "e" [] c = "F" -> "f"
      [] OTHER -> c

lower(str) == [i \in 1..Len(str) |-> Lower(str[i])]

endswith(str, suffix) ==
    /\ Len(suffix) <= Len(str)
    /\ SubSeq(str, Len(str) - Len(suffix) + 1, Len(str)) = suffix

E4BE_UUID_128 ==
    << "0", "0", "0", "0", "e", "4", "b", "e", "-", "0", "0", "0", "0", "-",
       "1", "0", "0", "0", "-", "8", "0", "0", "0", "-",
       "0", "0", "8", "0", "5", "f", "9", "b", "3", "4", "f", "b" >>

E4BE_UUID_16 == << "e", "4", "b", "e" >>

\* the key of the service data of another service
UUID_FEAA == [E4BE_UUID_128 EXCEPT ![5] = "f", ![6] = "e", ![7] = "a", ![8] = "a"]

\* the test of the first loop of _find_e4be_payload, for lower-cased want
IsCandidate(key, want) ==
    \/ want # <<>> /\ (lower(key) = want \/ endswith(lower(key), want) \/ endswith(want, lower(key)))
    \/ lower(key) = E4BE_UUID_128
    \/ endswith(lower(key), E4BE_UUID_128)
    \/ lower(key) = E4BE_UUID_16
    \/ endswith(lower(key), E4BE_UUID_16)

\* the first value of the items at the indexes I, if any
FirstVal(service_data, I) ==
    IF I = {} THEN None
    ELSE Some(service_data[CHOOSE i \in I : \A k \in I : i <= k].val)

\* the first candidate, whatever its length
find_e4be_payload_anylen(service_data, want_uuid) ==
    FirstVal(service_data,
             {i \in 1..Len(service_data) : IsCandidate(service_data[i].key, lower(want_uuid))})

\* _find_e4be_payload(adv, want_uuid): the first candidate of 17 bytes, else
\* the first value of 17 bytes, else None
find_e4be_payload(service_data, want_uuid) ==
    IF service_data = <<>> THEN None
    ELSE IF \E i \in 1..Len(service_data) :
               /\ IsCandidate(service_data[i].key, lower(want_uuid))
               /\ Len(service_data[i].val) = 17
         THEN FirstVal(service_data,
                       {i \in 1..Len(service_data) :
                           /\ IsCandidate(service_data[i].key, lower(want_uuid))
                           /\ Len(service_data[i].val) = 17})
         ELSE FirstVal(service_data,
                       {i \in 1..Len(service_data) : Len(service_data[i].val) = 17})

\* the records a run is followed for
MaxPackets == 3

TareOptions ==
    { [reader |-> "tare", mac |-> "", uuid |-> E4BE_UUID_128, tare |-> TRUE,
       learn_k |-> Some(FRat(2, 1)), k |-> None,
       tare_file |-> None, k_file |-> None, has_tare_file |-> TRUE, has_k_file |-> TRUE],
      [reader |-> "tare", mac |-> "5c013b3592ee", uuid |-> << "E", "4", "B", "E" >>, tare |-> TRUE,
       learn_k |-> None, k |-> Some(FRat(1, 1000)),
       tare_file |-> Some([s \in States |-> IF s = 1 THEN Some(1000) ELSE None]),
       k_file |-> None, has_tare_file |-> TRUE, has_k_file |-> FALSE],
      [reader |-> "tare", mac |-> "", uuid |-> <<>>, tare |-> FALSE,
       learn_k |-> Some(FRat(2, 1)), k |-> Some(FRat(1, 1000)),
       tare_file |-> Some([s \in States |-> IF s = 1 THEN Some(1000) ELSE None]),
       k_file |-> Some(FRat(1, 2)), has_tare_file |-> TRUE, has_k_file |-> TRUE],
      [reader |-> "tare", mac |-> "", uuid |-> E4BE_UUID_128, tare |-> FALSE,
       learn_k |-> None, k |-> None,
       tare_file |-> None, k_file |-> Some(FRat(1, 2)), has_tare_file |-> FALSE,
       has_k_file |-> TRUE] }

\* a payload of n bytes with the raw value and the state code s
TareFrame(raw, s, n) ==
    [i \in 1..n |-> IF i = 13 THEN raw \div 256 ELSE IF i = 14 THEN raw % 256
                    ELSE IF i = 16 THEN s ELSE 0]

TareRaws == {996, 1000, 1004}

\* the service data of the advertisements in range
ServiceDatas ==
    {<<>>}
    \cup { <<[key |-> E4BE_UUID_128, val |-> TareFrame(raw, s, 17)]>> : raw \in TareRaws, s \in States }
    \cup { <<[key |-> E4BE_UUID_128, val |-> TareFrame(1000, 1, n)]>> : n \in {10, 18} }
    \cup { <<[key |-> E4BE_UUID_128, val |-> TareFrame(1000, 1, 18)],
             [key |-> UUID_FEAA, val |-> TareFrame(1004, 2, 17)]>>,
           <<[key |-> UUID_FEAA, val |-> TareFrame(996, 1, 10)]>> }

InitTare ==
    /\ CalIdle
    /\ data = <<>>
    /\ decoder = ""
    /\ args = DefaultArgs
    /\ res = [exc |-> "", ret |-> None]
    /\ opts \in TareOptions
    /\ slope = None
    /\ intercept = None
    /\ displayed_kg = FZero
    /\ zero_offset = FZero
    /\ raw_buf = <<>>
    /\ raw_med = FZero
    /\ kg_now = None
    /\ kg_zeroed = FZero
    /\ commit = FALSE
    /\ raws = <<>>
    /\ gate = <<>>
    /\ adv = [address |-> "", sd |-> <<>>]
    /\ live = "listening"
    /\ KmIdle
    /\ baselines = IF opts.tare_file = None THEN [s \in States |-> None] ELSE opts.tare_file[1]
    /\ K = IF opts.k # None THEN opts.k ELSE opts.k_file
    /\ learned_k = FALSE
    /\ kg_pred = None
    /\ tare_json = opts.tare_file
    /\ k_json = IF opts.k_file = None THEN None ELSE Some([K |-> opts.k_file[1]])

\* K learned on every record with a delta
LearnsK_again(st, raw, b) ==
    /\ opts.learn_k # None
    /\ b[st] # None
    /\ raw - b[st][1] # 0

\* the record makes the callback learn K, for the baselines b
LearnsK(st, raw, b) ==
    /\ opts.learn_k # None
    /\ ~learned_k
    /\ b[st] # None
    /\ raw - b[st][1] # 0

\* the baselines after the tare logic that overwrites the baseline
Tared_overwrite(st, raw) ==
    IF opts.tare THEN [baselines EXCEPT ![st] = Some(raw)] ELSE baselines

\* the baselines after the tare logic of the callback
Tared(st, raw) ==
    IF opts.tare /\ baselines[st] = None THEN [baselines EXCEPT ![st] = Some(raw)]
    ELSE baselines

\* the body of detection_callback past the decoding, for the baselines b and
\* the K k after the tare and learn-K logic
TareRecord(st, raw, b, k) ==
    /\ baselines' = b
    /\ tare_json' = IF b # baselines /\ opts.has_tare_file THEN Some(b) ELSE tare_json
    /\ K' = k
    /\ learned_k' = (learned_k \/ LearnsK(st, raw, b))
    /\ k_json' = IF LearnsK(st, raw, b) /\ opts.has_k_file THEN Some([K |-> k[1]]) ELSE k_json
    /\ kg_pred' = IF b[st] # None /\ k # None
                  THEN Some(FMul(k[1], FSub(FInt(raw), FInt(b[st][1]))))
                  ELSE None
    /\ raws' = Append(raws, raw)

TareHandle(st, raw, b) ==
    TareRecord(st, raw, b,
               IF LearnsK(st, raw, b) THEN Some(FDiv(opts.learn_k[1], FInt(raw - b[st][1])))
               ELSE K)

\* what detection_callback writes
tareChan == <<tareVars, raws, decVars>>

\* detection_callback(device, adv) past the MAC filter, for the payload found
TareDecoded(payload) ==
    /\ data' = payload
    /\ decoder' = "decode_payload"
    /\ args' = args
    /\ res' = decode_payload(payload)
    /\ IF decode_payload(payload).exc # "" THEN UNCHANGED <<tareVars, raws>>
       ELSE TareHandle(decode_payload(payload).ret[1].state_code_u16,
                       decode_payload(payload).ret[1].weight_raw_u16,
                       Tared(decode_payload(payload).ret[1].state_code_u16,
                             decode_payload(payload).ret[1].weight_raw_u16))

detection_callback(address, service_data) ==
    IF opts.mac # "" /\ address # opts.mac THEN UNCHANGED tareChan
    ELSE IF find_e4be_payload(service_data, opts.uuid) = None THEN UNCHANGED tareChan
    ELSE TareDecoded(find_e4be_payload(service_data, opts.uuid)[1])

TareDetect ==
    /\ opts.reader = "tare"
    /\ Len(raws) < MaxPackets
    /\ \E address \in Devices :
          \E service_data \in ServiceDatas :
             /\ adv' = [address |-> address, sd |-> service_data]
             /\ detection_callback(address, service_data)
    /\ UNCHANGED <<opts, slope, intercept, displayed_kg, zero_offset, raw_buf, raw_med, kg_now,
                   kg_zeroed, commit, gate, live, kmVars, calVars>>

NextTare == TareDetect

SpecTare == InitTare /\ [][NextTare]_vars

(***************************************************************************)
(* apply_byte_select_and_shift of ble_kegscale_reader_noframe.py, called   *)
(* on the u16 that extract_u16 gave (None for a short frame) with          *)
(* --raw-byte and a --raw-shift that is not negative.                      *)
(***************************************************************************)
\* x & m for naturals
RECURSIVE BitAnd(_, _)
BitAnd(x, m) ==
    IF x = 0 \/ m = 0 THEN 0
    ELSE 2 * BitAnd(x \div 2, m \div 2) + (IF x % 2 = 1 /\ m % 2 = 1 THEN 1 ELSE 0)

\* the shift applied before the byte is selected
apply_byte_select_and_shift_shiftfirst(val, raw_byte, shift) ==
    IF val = None THEN None
    ELSE IF raw_byte = "low" THEN Some(BitAnd(Shr(val[1], shift), 255))
    ELSE IF raw_byte = "high" THEN Some(BitAnd(Shr(Shr(val[1], shift), 8), 255))
    ELSE Some(Shr(val[1], shift))

apply_byte_select_and_shift(val, raw_byte, shift) ==
    IF val = None THEN None
    ELSE IF raw_byte = "low" THEN Some(Shr(BitAnd(val[1], 255), shift))
    ELSE IF raw_byte = "high" THEN Some(Shr(BitAnd(Shr(val[1], 8), 255), shift))
    ELSE Some(Shr(val[1], shift))

\* the largest --raw-shift
MaxShift == 4

\* the u16 values of the frames
SelectVals == {None} \cup {Some(v) : v \in {0, 1, 255, 256, 4660, 5000, 13330, 43981, 65280, 65535}}

InitSelect ==
    /\ LiveIdle
    /\ CalIdle
    /\ data = <<>>
    /\ decoder = ""
    /\ \E val \in SelectVals :
          \E raw_byte \in {"none", "low", "high"} :
             \E shift \in 0..MaxShift :
                args = [val |-> val, raw_byte |-> raw_byte, shift |-> shift]
    /\ res = [exc |-> "", ret |-> None]

ApplyByteSelectAndShift ==
    /\ decoder = ""
    /\ decoder' = "apply_byte_select_and_shift"
    /\ res' = [exc |-> "", ret |-> apply_byte_select_and_shift(args.val, args.raw_byte, args.shift)]
    /\ UNCHANGED <<data, args, liveVars, calVars>>

NextSelect == ApplyByteSelectAndShift

SpecSelect == InitSelect /\ [][NextSelect]_vars

(***************************************************************************)
(* ble_scanrecord.py: the parser of raw advertisement bytes.  A UUID is    *)
(* its 16 bytes, most significant first; a dict is the sequence of its     *)
(* entries in insertion order.                                             *)
(***************************************************************************)
AD_FLAGS == 1
AD_UUID16_INCOMPLETE == 2
AD_UUID16_COMPLETE == 3
AD_UUID32_INCOMPLETE == 4
AD_UUID32_COMPLETE == 5
AD_UUID128_INCOMPLETE == 6
AD_UUID128_COMPLETE == 7
AD_LOCAL_NAME_SHORT == 8
AD_LOCAL_NAME_COMPLETE == 9
AD_TX_POWER == 10
AD_SOLICIT_UUID16 == 20
AD_SOLICIT_UUID128 == 21
AD_SOLICIT_UUID32 == 31
AD_SERVICE_DATA_16 == 22
AD_SERVICE_DATA_32 == 32
AD_SERVICE_DATA_128 == 33
AD_MANUFACTURER_SPECIFIC_DATA == 255

\* b[lo:hi] for 0 <= lo, 0 <= hi
Slice(b, lo, hi) == SubSeq(b, lo + 1, IF hi < Len(b) THEN hi ELSE Len(b))

Reverse(b) == [i \in 1..Len(b) |-> b[Len(b) + 1 - i]]

BaseTail == <<0, 0, 16, 0, 128, 0, 0, 128, 95, 155, 52, 251>>

\* struct.unpack("<Q") of each half, (hi << 64) | lo: the 16 bytes reversed
bytes_to_uuid_le_128(b) == Reverse(b)

\* f"{v:04x}0000-0000-1000-8000-00805f9b34fb": v is the top 16 bits
uuid_from_16(v) == <<v \div 256, v % 256, 0, 0>> \o BaseTail

\* f"{v:08x}-0000-1000-8000-00805f9b34fb", v the "<I" value of 4 bytes
uuid_from_32(chunk) == <<chunk[4], chunk[3], chunk[2], chunk[1]>> \o BaseTail

RECURSIVE parse_uuid_list(_, _)
parse_uuid_list(buf, size_each) ==
    IF Len(buf) < size_each THEN <<>>
    ELSE LET chunk == SubSeq(buf, 1, size_each)
             u == IF size_each = 2 THEN uuid_from_16(U16LE(chunk, 0))
                  ELSE IF size_each = 4 THEN uuid_from_32(chunk)
                  ELSE bytes_to_uuid_le_128(chunk)
         IN  <<u>> \o parse_uuid_list(SubSeq(buf, size_each + 1, Len(buf)), size_each)

\* d[k] = v on a dict kept in insertion order
DictPut(d, k, v) ==
    IF \E i \in 1..Len(d) : d[i].key = k
    THEN [i \in 1..Len(d) |-> IF d[i].key = k THEN [key |-> k, val |-> v] ELSE d[i]]
    ELSE Append(d, [key |-> k, val |-> v])

\* value.decode("utf-8", errors="ignore") on bytes that are ASCII or stray
\* bytes of no valid sequence: the stray bytes are dropped
DecodeIgnore(value) == SelectSeq(value, LAMBDA c : c < 128)

\* struct.unpack("b", value[:1])[0]
SignedByte(v) == IF v >= 128 THEN v - 256 ELSE v

ScanRecord(ad) ==
    [service_uuids |-> <<>>, solicit_uuids |-> <<>>, manufacturer_data |-> <<>>,
     service_data |-> <<>>, flags |-> None, tx_power |-> None,
     local_name |-> None, raw |-> ad]

\* the dispatch on one AD structure
Dispatch(sr, ad_type, value) ==
    IF ad_type \in {AD_UUID16_INCOMPLETE, AD_UUID16_COMPLETE}
    THEN [sr EXCEPT !.service_uuids = @ \o parse_uuid_list(value, 2)]
    ELSE IF ad_type \in {AD_UUID32_INCOMPLETE, AD_UUID32_COMPLETE}
    THEN [sr EXCEPT !.service_uuids = @ \o parse_uuid_list(value, 4)]
    ELSE IF ad_type \in {AD_UUID128_INCOMPLETE, AD_UUID128_COMPLETE}
    THEN [sr EXCEPT !.service_uuids = @ \o parse_uuid_list(value, 16)]
    ELSE IF ad_type \in {AD_LOCAL_NAME_SHORT, AD_LOCAL_NAME_COMPLETE}
    THEN [sr EXCEPT !.local_name = Some(DecodeIgnore(value))]
    ELSE IF ad_type = AD_TX_POWER
    THEN IF Len(value) >= 1 THEN [sr EXCEPT !.tx_power = Some(SignedByte(value[1]))] ELSE sr
    ELSE IF ad_type = AD_FLAGS
    THEN IF Len(value) >= 1 THEN [sr EXCEPT !.flags = Some(value[1])] ELSE sr
    ELSE IF ad_type = AD_SOLICIT_UUID16
    THEN [sr EXCEPT !.solicit_uuids = @ \o parse_uuid_list(value, 2)]
    ELSE IF ad_type = AD_SOLICIT_UUID32
    THEN [sr EXCEPT !.solicit_uuids = @ \o parse_uuid_list(value, 4)]
    ELSE IF ad_type = AD_SOLICIT_UUID128
    THEN [sr EXCEPT !.solicit_uuids = @ \o parse_uuid_list(value, 16)]
    ELSE IF ad_type = AD_MANUFACTURER_SPECIFIC_DATA
    THEN IF Len(value) >= 2
         THEN [sr EXCEPT !.manufacturer_data =
                  DictPut(@, U16LE(value, 0), Slice(value, 2, Len(value)))]
         ELSE sr
    ELSE IF ad_type = AD_SERVICE_DATA_16 /\ Len(value) >= 2
    THEN [sr EXCEPT !.service_data =
             DictPut(@, uuid_from_16(U16LE(value, 0)), Slice(value, 2, Len(value)))]
    ELSE IF ad_type = AD_SERVICE_DATA_32 /\ Len(value) >= 4
    THEN [sr EXCEPT !.service_data =
             DictPut(@, uuid_from_32(SubSeq(value, 1, 4)), Slice(value, 4, Len(value)))]
    ELSE IF ad_type = AD_SERVICE_DATA_128 /\ Len(value) >= 16
    THEN [sr EXCEPT !.service_data =
             DictPut(@, bytes_to_uuid_le_128(SubSeq(value, 1, 16)), Slice(value, 16, Len(value)))]
    ELSE sr

\* the while loop from index i on; ad[i+1] past the end raises IndexError
RECURSIVE ParseLoop(_, _, _)
ParseLoop(ad, i, sr) ==
    IF ~(i < Len(ad)) THEN Returned(sr)
    ELSE LET length == At(ad, i) IN
         IF length = 0 THEN Returned(sr)
         ELSE IF ~(i + 1 < Len(ad)) THEN Raised("IndexError")
         ELSE ParseLoop(ad, i + 1 + length,
                        Dispatch(sr, At(ad, i + 1), Slice(ad, i + 2, i + 1 + length)))

parse_scan_record(ad) == ParseLoop(ad, 0, ScanRecord(ad))

MaxStructs == 2

\* AD structures: flags, a 16-bit UUID list, a name, the TX power, service
\* data under 0xE4BE, manufacturer data, an unknown type, a solicited UUID,
\* the terminating zero length, and service data under a 128-bit UUID
AdStructures ==
    {<<2, 1, 6>>,
     <<3, 3, 170, 254>>,
     <<3, 9, 75, 83>>,
     <<2, 10, 244>>,
     <<5, 22, 190, 228, 32, 7>>,
     <<4, 255, 76, 0, 2>>,
     <<2, 27, 1>>,
     <<3, 20, 170, 254>>,
     <<0>>,
     <<18, 33, 251, 52, 155, 95, 128, 0, 0, 128, 0, 16, 0, 0, 190, 228, 0, 0, 9>>}

RECURSIVE Concats(_)
Concats(n) ==
    IF n = 0 THEN {<<>>}
    ELSE Concats(n - 1) \cup {c \o st : c \in Concats(n - 1), st \in AdStructures}

\* whole and truncated advertisements
Advertisements == UNION {{SubSeq(c, 1, n) : n \in 0..Len(c)} : c \in Concats(MaxStructs)}

InitScan ==
    /\ LiveIdle
    /\ CalIdle
    /\ data \in Advertisements
    /\ decoder = ""
    /\ args = DefaultArgs
    /\ res = [exc |-> "", ret |-> None]

ParseScanRecord ==
    /\ decoder = ""
    /\ decoder' = "parse_scan_record"
    /\ res' = parse_scan_record(data)
    /\ UNCHANGED <<data, args, liveVars, calVars>>

NextScan == ParseScanRecord

SpecScan == InitScan /\ [][NextScan]_vars

(***************************************************************************)
(* mv_to_battery_percentage in kegscale_decode.py, kegscale_decoder.py and *)
(* kegscale_complete_decoder.py.                                           *)
(***************************************************************************)
\* kegscale_decode.py: the table local to the function
battery_voltage_table ==
    <<3165, 3246, 3293, 3327, 3353, 3374, 3392, 3408, 3422, 3434,
      3445, 3455, 3465, 3473, 3481, 3489, 3496, 3502, 3506, 3514,
      3522, 3531, 3539, 3547, 3555, 3563, 3571, 3580, 3588, 3596,
      3604, 3612, 3620, 3629, 3637, 3645, 3653, 3661, 3669, 3678,
      3686, 3694, 3702, 3710, 3718, 3727, 3735, 3743, 3751, 3759,
      3767, 3776, 3784, 3792, 3800, 3808, 3817, 3825, 3833, 3841,
      3849, 3857, 3866, 3874, 3882, 3890, 3898, 3906, 3915, 3923,
      3931, 3939, 3947, 3955, 3964, 3972, 3980, 3988, 3996, 4004,
      4013, 4021, 4029, 4037, 4045, 4054, 4062, 4070, 4078, 4086,
      4094, 4103, 4111, 4119, 4127, 4135, 4143, 4152, 4160, 4168>>

\* kegscale_complete_decoder.py: _create_battery_table returns the voltages
complete_create_battery_table ==
    <<3165, 3246, 3293, 3327, 3353, 3374, 3392, 3408, 3422, 3434,
      3445, 3455, 3465, 3473, 3481, 3489, 3496, 3502, 3506, 3514,
      3522, 3531, 3539, 3547, 3555, 3563, 3571, 3580, 3588, 3596,
      3604, 3612, 3620, 3629, 3637, 3645, 3653, 3661, 3669, 3678,
      3686, 3694, 3702, 3710, 3718, 3727, 3735, 3743, 3751, 3759,
      3767, 3776, 3784, 3792, 3800, 3808, 3817, 3825, 3833, 3841,
      3849, 3857, 3866, 3874, 3882, 3890, 3898, 3906, 3915, 3923,
      3931, 3939, 3947, 3955, 3964, 3972, 3980, 3988, 3996, 4004,
      4013, 4021, 4029, 4037, 4045, 4054, 4062, 4070, 4078, 4086,
      4094, 4103, 4111, 4119, 4127, 4135, 4143, 4152, 4160, 4168>>

\* kegscale_decoder.py: _create_battery_table pairs each voltage with its
\* index
decoder_voltages ==
    <<3165, 3246, 3293, 3327, 3353, 3374, 3392, 3408, 3422, 3434,
      3445, 3455, 3465, 3473, 3481, 3489, 3496, 3502, 3506, 3514,
      3522, 3531, 3539, 3547, 3555, 3563, 3571, 3580, 3588, 3596,
      3604, 3612, 3620, 3629, 3637, 3645, 3653, 3661, 3669, 3678,
      3686, 3694, 3702, 3710, 3718, 3727, 3735, 3743, 3751, 3759,
      3767, 3776, 3784, 3792, 3800, 3808, 3817, 3825, 3833, 3841,
      3849, 3857, 3866, 3874, 3882, 3890, 3898, 3906, 3915, 3923,
      3931, 3939, 3947, 3955, 3964, 3972, 3980, 3988, 3996, 4004,
      4013, 4021, 4029, 4037, 4045, 4054, 4062, 4070, 4078, 4086,
      4094, 4103, 4111, 4119, 4127, 4135, 4143, 4152, 4160, 4168>>

decoder_create_battery_table ==
    [i \in 1..Len(decoder_voltages) |-> <<decoder_voltages[i], i - 1>>]

\* for i, voltage in enumerate(table): if millivolts < voltage: return i
RECURSIVE EnumScan(_, _, _)
EnumScan(table, millivolts, i) ==
    IF i >= Len(table) THEN 100
    ELSE IF millivolts < At(table, i) THEN i
    ELSE EnumScan(table, millivolts, i + 1)

\* for voltage, percentage in table: if millivolts < voltage: return percentage
RECURSIVE PairScan(_, _, _)
PairScan(table, millivolts, i) ==
    IF i >= Len(table) THEN 100
    ELSE IF millivolts < At(table, i)[1] THEN At(table, i)[2]
    ELSE PairScan(table, millivolts, i + 1)

decode_mv_to_battery_percentage(millivolts) ==
    IF millivolts < 3165 THEN 0
    ELSE EnumScan(battery_voltage_table, millivolts, 0)

decoder_mv_to_battery_percentage_le(millivolts) ==
    IF millivolts <= 3165 THEN 0
    ELSE PairScan([i \in 1..Len(decoder_voltages) |-> <<decoder_voltages[i] + 1, i - 1>>],
                  millivolts, 0)

decoder_mv_to_battery_percentage(millivolts) ==
    IF millivolts < 3165 THEN 0
    ELSE PairScan(decoder_create_battery_table, millivolts, 0)

complete_mv_to_battery_percentage(millivolts) ==
    IF millivolts < 3165 THEN 0
    ELSE EnumScan(complete_create_battery_table, millivolts, 0)

BatteryImpls == {"kegscale_decode", "kegscale_decoder", "kegscale_complete_decoder"}

mv_to_battery_percentage(impl, millivolts) ==
    IF impl = "kegscale_decode" THEN decode_mv_to_battery_percentage(millivolts)
    ELSE IF impl = "kegscale_decoder" THEN decoder_mv_to_battery_percentage(millivolts)
    ELSE complete_mv_to_battery_percentage(millivolts)

MvPad == 1

\* the readings within MvPad of an entry of the table, and the ends of the
\* 16-bit range
Millivolts ==
    {0, 65535} \cup
    UNION {{battery_voltage_table[i] + d : d \in (0 - MvPad)..MvPad} :
              i \in 1..Len(battery_voltage_table)}

InitBattery ==
    /\ LiveIdle
    /\ CalIdle
    /\ data = <<>>
    /\ decoder = ""
    /\ \E millivolts \in Millivolts : args = [millivolts |-> millivolts]
    /\ res = [exc |-> "", ret |-> None]

MvToBatteryPercentage ==
    /\ decoder = ""
    /\ \E impl \in BatteryImpls :
          /\ decoder' = impl
          /\ res' = Returned(mv_to_battery_percentage(impl, args.millivolts))
    /\ UNCHANGED <<data, args, liveVars, calVars>>

NextBattery == MvToBatteryPercentage

SpecBattery == InitBattery /\ [][NextBattery]_vars

(***************************************************************************)
(* Claims on the decoders.                                                 *)
(***************************************************************************)
\* the fields of each decoder: name, offset and width in bytes
FieldsOfParseFields ==
    { [name |-> "temp_c", off |-> 5, w |-> 1], [name |-> "seq", off |-> 9, w |-> 1],
      [name |-> "raw32", off |-> 13, w |-> 4], [name |-> "status", off |-> 16, w |-> 2] }

FieldsOfServiceData(a) ==
    { [name |-> "batt_raw", off |-> a.batt_index, w |-> 1],
      [name |-> "temp_c", off |-> a.temp_index, w |-> 2],
      [name |-> "raw_u16", off |-> a.raw_index, w |-> 2] }

Short(fld) == Len(data) < fld.off + fld.w

\* the value a field of parse_fields has on its own
AloneParseFields(name) ==
    IF name = "temp_c" THEN Some(FRat(At(data, 5), 10))
    ELSE IF name = "seq" THEN Some(At(data, 9))
    ELSE IF name = "raw32" THEN Some(S32LE(data, 13))
    ELSE Some(U16LE(data, 16))

\* C1: for every field and every frame shorter than the field's offset + width,
\* decoding returns without raising, that field is absent from what it returns
\* (it is not 0), and every field of the frame whose bytes are in range is decoded.
C1_ShortFieldIsAbsent ==
    /\ decoder = "parse_fields" =>
          /\ res.exc = ""
          /\ \A fld \in FieldsOfParseFields :
                res.ret[1][fld.name] = IF Short(fld) THEN None ELSE AloneParseFields(fld.name)
    /\ decoder = "parse_service_data" =>
          \A fld \in FieldsOfServiceData(args) :
             Short(fld) =>
                /\ res.exc = ""
                /\ fld.name \notin DOMAIN res.ret[1]
                /\ \A g \in FieldsOfServiceData(args) :
                      ~Short(g) => g.name \in DOMAIN res.ret[1]

\* C2: decoding never raises, whatever the length of the frame, and gives a
\* decoded frame even when no field can be decoded.
C2_DecodingNeverRaises ==
    decoder \in {"decode_payload", "parse_service_data"} =>
       /\ res.exc = ""
       /\ res.ret # None

(***************************************************************************)
(* Claims on live_read.                                                    *)
(***************************************************************************)
\* every raw value of the stream so far is the first one
ConstantStream == raws # <<>> /\ \A i \in 1..Len(raws) : raws[i] = raws[1]

\* the stream so far rises, or falls, by at least the slope threshold
\* opts.stable_slope at every sample
RampStream ==
    /\ raws # <<>>
    /\ \/ \A i \in 2..Len(raws) :
             (raws[i] - raws[i - 1]) * opts.stable_slope[2] >= opts.stable_slope[1]
       \/ \A i \in 2..Len(raws) :
             (raws[i - 1] - raws[i]) * opts.stable_slope[2] >= opts.stable_slope[1]

\* C3: while the ring has held fewer samples than its capacity the gate has
\* returned false for every frame and the displayed value is still the
\* initial 0.0.
C3_NoCommitBeforeRingFull ==
    /\ \A i \in 1..Len(gate) : i < Cap(opts) => ~gate[i]
    /\ Len(raws) < Cap(opts) =>
          /\ Len(raw_buf) = Len(raws)
          /\ ~commit
          /\ displayed_kg = FZero

C3_Witness ==
    /\ ConstantStream
    /\ Len(raws) = Cap(opts) - 1
    /\ Len(raw_buf) = Cap(opts) - 1

\* C4: on a constant stream the frame that fills the ring commits, and on
\* that frame and every later one the displayed value is the value of the
\* frame, which is that of the median of the ring, the constant itself.
C4_ConstantStreamCommits ==
    (ConstantStream /\ Len(raws) >= Cap(opts)) =>
       /\ \A i \in Cap(opts)..Len(gate) : gate[i]
       /\ commit
       /\ raw_med = FInt(raws[1])
       /\ displayed_kg = kg_zeroed

C4_Witness == ConstantStream /\ Len(raws) = Cap(opts) + MaxExtra /\ commit

\* C5: on a stream that ramps by at least the slope threshold per sample
\* the gate passes on no frame and the displayed value is never updated.
C5_RampNeverCommits ==
    RampStream =>
       /\ \A i \in 1..Len(gate) : ~gate[i]
       /\ ~commit
       /\ displayed_kg = FZero

C5_Witness ==
    /\ RampStream
    /\ Len(raws) = Cap(opts) + MaxExtra
    /\ raws[Len(raws)] # raws[1]
    /\ PstdevLess(raw_buf, opts.stable_sd)

\* C6: with a calibration loaded and zeroing off, identical frames of raw
\* value w commit on none of the frames 1..k-1 (k the capacity of the ring),
\* commit on frame k, and from then on the displayed value is
\* slope * w + intercept: 5.0 for w = 5000, slope 0.001, intercept 0.0,
\* smooth 5, stable_sd 4.0, stable_slope 1.5.
C6_EndToEnd ==
    (ConstantStream /\ ~opts.zero /\ slope # None /\ intercept # None) =>
       /\ \A i \in 1..Len(gate) : gate[i] <=> i >= Cap(opts)
       /\ Len(raws) < Cap(opts) => displayed_kg = FZero
       /\ Len(raws) >= Cap(opts) =>
             /\ displayed_kg = FAdd(FMul(slope[1], FInt(raws[1])), intercept[1])
             /\ (/\ raws[1] = 5000
                 /\ opts.smooth = 5
                 /\ opts.stable_sd = <<4, 1>>
                 /\ opts.stable_slope = <<3, 2>>
                 /\ slope = Some(FRat(1, 1000))
                 /\ intercept = Some(FZero)) => displayed_kg = FInt(5)

C6_Witness ==
    /\ ConstantStream
    /\ raws[1] = 5000
    /\ opts.smooth = 5
    /\ opts.stable_slope = <<3, 2>>
    /\ slope = Some(FRat(1, 1000))
    /\ Len(raws) = 6
    /\ gate = <<FALSE, FALSE, FALSE, FALSE, TRUE, TRUE>>
    /\ displayed_kg = FInt(5)

(***************************************************************************)
(* Claims on the calibration of ble_kegscale_reader.py and                 *)
(* fe_weight_reader.py, and on run_calibration of rpi_ble_scanner.py.      *)
(***************************************************************************)
\* the representative value of a capture as the float the fit computes with
AsFloat(r) == IF script = "ble" THEN FInt(r[1]) ELSE r[1]

\* a fit was computed by the reader scripts, which give slope and intercept
Fitted == pc = "done" /\ script \in {"ble", "fe"}

\* x * 2^k
FScale(x, k) == IF x.m = <<>> THEN x ELSE [x EXCEPT !.e = @ + k]

\* the rounding of the division, of the two products and of the sum:
\* known * 2^-52 * (2 + (|r0| + |r1|) / |r1 - r0|)
Tol(known, r0, r1) ==
    FScale(FMul(FAbs(known),
                FAdd(FInt(2), FDiv(FAdd(FAbs(r0), FAbs(r1)), FAbs(FSub(r1, r0))))), -52)

Near(x, y, tol) == ~FLt(tol, FAbs(FSub(x, y)))

FitIs(cal, known, r0, r1) ==
    /\ cal.slope = FDiv(known, FSub(r1, r0))
    /\ cal.intercept = FNeg(FMul(cal.slope, r0))

\* slope * raw + intercept gives known at raw_loaded
ExactAtLoaded(cal, known, r1) == Apply(cal.slope, cal.intercept, r1) = known

\* C7 as stated: for every raw_empty # raw_loaded and known_value the fit
\* gives slope = known_value / (raw_loaded - raw_empty) and
\* intercept = -slope * raw_empty, and slope * raw + intercept is exactly 0
\* at raw_empty and exactly known_value at raw_loaded.
C7_RoundTripExact ==
    Fitted =>
       /\ FitIs(outcome.ret[1], cargs.known, AsFloat(R0), AsFloat(R1))
       /\ Apply(outcome.ret[1].slope, outcome.ret[1].intercept, AsFloat(R0)) = FZero
       /\ ExactAtLoaded(outcome.ret[1], cargs.known, AsFloat(R1))

\* C7, amended: for every raw_empty # raw_loaded and known_value the fit
\* gives slope = known_value / (raw_loaded - raw_empty) and
\* intercept = -slope * raw_empty; slope * raw + intercept is exactly 0 at
\* raw_empty, and at raw_loaded it is known_value to within the rounding of
\* the float operations, known_value * 2^-52 * (2 + (|raw_empty| +
\* |raw_loaded|) / |raw_loaded - raw_empty|); for 1000, 500, 2.0 the slope is
\* -0.004, the intercept 4.0 and the value at raw_loaded exactly 2.0.
C7_RoundTrip ==
    Fitted =>
       /\ FitIs(outcome.ret[1], cargs.known, AsFloat(R0), AsFloat(R1))
       /\ Apply(outcome.ret[1].slope, outcome.ret[1].intercept, AsFloat(R0)) = FZero
       /\ Near(Apply(outcome.ret[1].slope, outcome.ret[1].intercept, AsFloat(R1)),
               cargs.known, Tol(cargs.known, AsFloat(R0), AsFloat(R1)))
       /\ (AsFloat(R0) = FInt(1000) /\ AsFloat(R1) = FInt(500) /\ cargs.known = FInt(2)) =>
             /\ outcome.ret[1].slope = FRat(-4, 1000)
             /\ outcome.ret[1].intercept = FInt(4)
             /\ ExactAtLoaded(outcome.ret[1], cargs.known, AsFloat(R1))

C7_Witness ==
    /\ Fitted
    /\ R0 # R1
    /\ ~ExactAtLoaded(outcome.ret[1], cargs.known, AsFloat(R1))
    /\ Near(Apply(outcome.ret[1].slope, outcome.ret[1].intercept, AsFloat(R1)),
            cargs.known, Tol(cargs.known, AsFloat(R0), AsFloat(R1)))

\* both captures gave a value and the two values are equal
EqualCaptures == R0 # None /\ R1 # None /\ R0 = R1

\* C8: when the two captures are equal the fit fails with the error of a
\* degenerate calibration (RuntimeError of the reader scripts, the report of
\* a zero delta of run_calibration): the equality is tested before the
\* division, so no division by zero happens, no slope or intercept is
\* produced and nothing is written.
C8_DegenerateFit ==
    EqualCaptures =>
       /\ pc = "failed"
       /\ outcome.exc = (IF script = "rpi" THEN "ZeroDelta" ELSE "RuntimeError")
       /\ outcome.ret = None
       /\ disk = disk0

C8_Witness ==
    /\ EqualCaptures
    /\ empty_vals # loaded_vals
    /\ pc = "failed"
    /\ disk0["keg_cal.json"] # None

\* the attempt had a capture with no sample
NoSamples ==
    \/ pc \in {"loaded", "failed", "done"} /\ empty_vals = <<>>
    \/ pc \in {"failed", "done"} /\ R0 # None /\ loaded_vals = <<>>

\* C9: an attempt with no sample in either capture, or with no delta between
\* the captures, fails, and a failed attempt leaves every calibration file as
\* it was before the attempt started.
C9_FailureKeepsModel ==
    /\ (NoSamples \/ EqualCaptures) => pc = "failed"
    /\ pc = "failed" => disk = disk0 /\ outcome.exc # "" /\ outcome.ret = None

C9_Witness ==
    /\ pc = "failed"
    /\ NoSamples
    /\ R0 # None
    /\ disk0["keg_cal.json"] # None
    /\ disk = disk0

\* the keys a calibration writes: its own entry
OwnKeys == {"slope", "intercept", "parser", "updated"}

\* C10: after a calibration every entry that was in a calibration file under
\* a key other than those of the calibration is still there, unchanged.
C10_OtherKeysKept ==
    pc = "done" =>
       \A p \in Paths :
          disk0[p] # None =>
             /\ disk[p] # None
             /\ \A k \in DOMAIN disk0[p][1] \ OwnKeys :
                   /\ k \in DOMAIN disk[p][1]
                   /\ disk[p][1][k] = disk0[p][1][k]

(***************************************************************************)
(* Claims on the calibrated value of a frame.                              *)
(***************************************************************************)
\* ble_kegscale_scanner.py: cal is None or Some of the coefficients a and b
apply_weight_calibration(raw, cal) ==
    IF cal = None THEN None
    ELSE Some(FAdd(FMul(cal[1].a, FInt(raw)), cal[1].b))

\* no calibration is loaded
Uncalibrated == slope = None \/ intercept = None

ZeroOffset == IF opts.reader = "fe" THEN zero_offset[1] ELSE zero_offset

\* C12: in zero mode the zeroed weight of every frame is
\* max(0, value - tare offset), so the zeroed weight and the displayed
\* weight are never negative.
C12_TaredNeverNegative ==
    (opts.reader \in {"ble", "fe"} /\ opts.zero) =>
       /\ ~FLt(kg_zeroed, FZero)
       /\ ~FLt(displayed_kg, FZero)
       /\ kg_now # None =>
             kg_zeroed = IF FLt(ZeroOffset, kg_now[1]) THEN FSub(kg_now[1], ZeroOffset)
                         ELSE FZero

C12_Witness ==
    /\ opts.reader = "ble"
    /\ opts.zero
    /\ kg_now # None
    /\ FLt(kg_now[1], ZeroOffset)
    /\ kg_zeroed = FZero
    /\ commit

(***************************************************************************)
(* Claims on the course of a calibration attempt.  pc is "empty" up to the *)
(* end of the capture with the scale empty, "loaded" from there to the end *)
(* of the capture with the known mass, then "done" (the fit is computed,   *)
(* and saved where the script saves) or "failed".                          *)
(***************************************************************************)
\* what holds at each position of the attempt
CalOrder ==
    /\ pc = "empty" => R0 = None /\ R1 = None /\ empty_vals = <<>> /\ loaded_vals = <<>>
    /\ pc = "loaded" => R0 # None /\ R1 = None /\ loaded_vals = <<>>
    /\ R1 # None => R0 # None
    /\ outcome.ret # None => pc = "done" /\ R0 # None /\ R1 # None
    /\ disk # disk0 => pc = "done" /\ outcome.ret # None

\* the steps of an attempt
CalForward ==
    \/ pc = "empty" /\ pc' \in {"loaded", "failed"}
    \/ pc = "loaded" /\ pc' \in {"done", "failed"}

\* C15: an attempt only moves forward: the loaded capture starts after the
\* empty capture has given its value, the fit is computed after both
\* captures, a file is written only with a computed fit, and nothing follows
\* the end of the attempt, saved or failed.
C15_SessionMovesForward == []CalOrder /\ [][CalForward]_vars

C15_Witness == pc = "done" /\ disk # disk0 /\ R0 # None /\ R1 # None

\* the attempt has ended
Ended == pc \in {"done", "failed"}

\* C16 as stated: an attempt with fewer than 3 samples in the empty capture
\* or in the loaded capture ends failed, with nothing computed or saved: no
\* fit comes from a capture of 1 or 2 samples.
C16_TooFewSamplesFail ==
    (Ended /\ (Len(empty_vals) < 3 \/ (R0 # None /\ Len(loaded_vals) < 3))) =>
       /\ pc = "failed"
       /\ outcome.ret = None
       /\ disk = disk0

\* C16, amended: an attempt with no sample in the empty capture or in the
\* loaded capture ends failed, with nothing computed or saved; a capture of
\* 1 or 2 samples gives its value like any other, and the attempt then
\* computes a fit whenever the values of the two captures differ.
C16_NoSamplesFail ==
    Ended =>
       /\ (empty_vals = <<>> \/ (R0 # None /\ loaded_vals = <<>>)) =>
             pc = "failed" /\ outcome.ret = None /\ disk = disk0
       /\ (empty_vals # <<>> /\ loaded_vals # <<>>) =>
             /\ R0 # None /\ R1 # None
             /\ R0 # R1 => pc = "done" /\ outcome.ret # None

C16_Witness ==
    /\ pc = "done"
    /\ Len(empty_vals) = 1
    /\ Len(loaded_vals) = 2
    /\ outcome.ret # None
    /\ disk # disk0

WeightEnd(o) ==
    CASE o.reader = "ble" -> o.dec.raw_index + 2
      [] o.reader = "fe"  -> 14
      [] o.reader = "km"  -> 17

\* the advertisement last handled is too short to hold the weight field
ShortFrame == Len(adv.sd) < WeightEnd(opts)

\* everything a callback reads or writes
readerState == <<opts, slope, intercept, chanVars, kmVars>>

C18_BadFrameIgnored == [][ShortFrame' => UNCHANGED readerState]_vars

\* a short frame of the watched device was handled when the ring held values
C18_Witness ==
    /\ ShortFrame
    /\ adv.address # ""
    /\ opts.mac \in {"", adv.address}
    /\ raws # <<>>
    /\ adv.sd # <<>>

(***************************************************************************)
(* C19.  The state kept for one device is not changed by the frames of     *)
(* another: d is watched when the reader has no --mac (it handles every    *)
(* address) or when --mac is d, and a frame from an address other than a   *)
(* watched d leaves the ring, the tare and the displayed value unchanged.  *)
(***************************************************************************)
Watched(d) == opts.mac \in {"", d}

C19_DevicesIsolated ==
    [][\A d \in Devices :
          (Watched(d) /\ adv'.address # d) => UNCHANGED <<chanVars, kmVars>>]_vars

(***************************************************************************)
(* C20.  The slope and the intercept a reader applies to its frames are    *)
(* the two of one model: those of the file as it was before the            *)
(* recalibration, or those of the model the recalibration has saved.       *)
(***************************************************************************)
\* the slope and intercept of the calibration object d
ModelPair(d) == <<GetNum(d, "slope"), GetNum(d, "intercept")>>

\* the model of the reader's file before the recalibration
OldModel == ModelPair(load_cal(disk0, CalPath(opts)))

\* the reader has the model the recalibration saved into its file
HasNewModel ==
    /\ pc = "done"
    /\ CalPath(opts) = cargs.save_cal
    /\ <<slope, intercept>> = ModelPair(outcome.ret[1])

C20_ModelSwappedWhole ==
    live = "listening" =>
       /\ <<slope, intercept>> = OldModel \/ HasNewModel
       /\ kg_now # None =>
             kg_now[1] = IF slope # None /\ intercept # None
                         THEN Apply(slope[1], intercept[1], raw_med)
                         ELSE FZero

\* a reader that started after the recalibration applies the new model, which
\* differs from the old one in slope and in intercept
C20_Witness ==
    /\ live = "listening"
    /\ HasNewModel
    /\ OldModel[1] # None /\ OldModel[1] # slope
    /\ OldModel[2] # None /\ OldModel[2] # intercept
    /\ kg_now # None

(***************************************************************************)
(* Claims on the tare-based scanner.  The record last printed is that of   *)
(* the payload last decoded.                                               *)
(***************************************************************************)
\* a record has been printed
Recorded == decoder = "decode_payload" /\ res.exc = ""

LastState == res.ret[1].state_code_u16

LastRaw == res.ret[1].weight_raw_u16

\* weight_kg of the last record is null without a baseline or without K, and
\* K * (raw - baseline[state]) otherwise
WeightFromBaseline ==
    Recorded =>
       kg_pred = IF baselines[LastState] = None \/ K = None THEN None
                 ELSE Some(FMul(K[1], FSub(FInt(LastRaw), FInt(baselines[LastState][1]))))

\* a step keeps every baseline there is, sets one only with --tare and only
\* to the raw value of the record of that state it prints, and with --tare
\* leaves no record's state without a baseline
BaselineStep ==
    /\ \A s \in States :
          /\ baselines[s] # None => baselines'[s] = baselines[s]
          /\ (baselines[s] = None /\ baselines'[s] # None) =>
                /\ opts.tare
                /\ raws' # raws
                /\ LastState' = s
                /\ baselines'[s] = Some(LastRaw')
    /\ (opts.tare /\ raws' # raws) => baselines'[LastState'] # None

\* C21: with --tare the baseline of a state is the raw value of the first
\* record of that state and no later record, nor the capture over a baseline
\* of the tare file, changes it; weight_kg is null without baseline or K and
\* K * (raw - baseline[state]) otherwise.
C21_BaselineKept == []WeightFromBaseline /\ [][BaselineStep]_vars

\* a later record in a tared state, with another raw value, has a weight
C21_Witness ==
    /\ opts.tare
    /\ opts.tare_file = None
    /\ Recorded
    /\ Len(raws) >= 2
    /\ baselines[LastState] = Some(raws[1])
    /\ LastRaw # raws[1]
    /\ kg_pred # None

\* KNOWN_KG / (raw - baseline[state]) for the record last printed
LearnedFromLast == Some(FDiv(opts.learn_k[1], FInt(LastRaw - baselines[LastState][1])))

\* the record last printed has a baseline and a raw value other than it
HasDelta == baselines[LastState] # None /\ LastRaw # baselines[LastState][1]

\* a step changes K only by learning it, which it does for the first record
\* with a delta and never again
LearnStep ==
    /\ (K' # K \/ learned_k' # learned_k) =>
          /\ opts.learn_k # None
          /\ ~learned_k /\ learned_k'
          /\ raws' # raws
          /\ HasDelta'
    /\ (opts.learn_k # None /\ ~learned_k /\ raws' # raws /\ HasDelta') => learned_k'

\* the record that K was learned from is the last one
JustLearned == learned_k /\ Recorded /\ HasDelta /\ Len(raws) = 1

\* a learned K is KNOWN_KG / (raw - baseline[state]) for a record printed and
\* a baseline other than its raw value, and for the record it was learned from
LearnedValue ==
    /\ learned_k =>
          \E i \in 1..Len(raws) :
             \E s \in States :
                /\ baselines[s] # None
                /\ raws[i] # baselines[s][1]
                /\ K = Some(FDiv(opts.learn_k[1], FInt(raws[i] - baselines[s][1])))
    /\ JustLearned => K = LearnedFromLast

\* C22: with --learn-k, K is learned once, from the first record whose raw
\* value differs from the baseline of its state, as
\* KNOWN_KG / (raw - baseline[state]); the delta is never zero and no later
\* record changes K.
C22_KLearnedOnce == []LearnedValue /\ [][LearnStep]_vars

\* after K was learned a record with another delta left it as it was
C22_Witness ==
    /\ learned_k
    /\ Recorded
    /\ HasDelta
    /\ K # LearnedFromLast
    /\ kg_pred # None

(***************************************************************************)
(* C23.  The displayed value is changed by a frame only when the gate      *)
(* passes on that frame: the ring is full, the population variance of its  *)
(* values is below stable_sd squared and |last - first| / (len - 1) is     *)
(* below stable_slope.  On every other frame it stays as it was.           *)
(***************************************************************************)
\* the sum of the squares of the values of the ring
SumSquares(buf) == SumSeq([i \in 1..Len(buf) |-> buf[i] * buf[i]])

\* the test of the gate on the ring, in exact arithmetic; a threshold is the
\* pair of the numerator and the denominator of its value
GatePasses(buf, sd, sl) ==
    /\ Len(buf) = Cap(opts)
    /\ (Len(buf) * SumSquares(buf) - SumSeq(buf) * SumSeq(buf)) * sd[2] * sd[2]
          < sd[1] * sd[1] * Len(buf) * Len(buf)
    /\ Abs(buf[Len(buf)] - buf[1]) * sl[2] < sl[1] * (Len(buf) - 1)

GateIsTheTest ==
    (opts.reader = "ble" /\ raws # <<>>) =>
       (commit <=> GatePasses(raw_buf, opts.stable_sd, opts.stable_slope))

DisplayStep ==
    opts.reader = "ble" =>
       displayed_kg' = IF raws' # raws /\ commit' THEN kg_zeroed' ELSE displayed_kg

C23_DisplayChangesOnlyOnGate == []GateIsTheTest /\ [][DisplayStep]_vars

\* after a commit a frame failed the gate and the value shown is the earlier
\* one, not that of the frame
C23_Witness ==
    /\ opts.reader = "ble"
    /\ Len(raws) > Cap(opts)
    /\ gate[Len(gate) - 1]
    /\ ~commit
    /\ displayed_kg # kg_zeroed
    /\ displayed_kg # FZero

(***************************************************************************)
(* The representative raw value of a capture.                              *)
(***************************************************************************)
\* the median of a batch: the middle of the sorted values, or the mean of the
\* two middle ones
MedianOf(vals) ==
    IF Len(vals) % 2 = 1 THEN FInt(Sorted(vals)[(Len(vals) + 1) \div 2])
    ELSE FDiv(FInt(Sorted(vals)[Len(vals) \div 2] + Sorted(vals)[Len(vals) \div 2 + 1]),
              FInt(2))

MeanOf(vals) == FDiv(FInt(SumSeq(vals)), FInt(Len(vals)))

\* C24 as claimed: the representative value of each capture, in every script,
\* is the median of the batch.
C24_CaptureIsMedian ==
    /\ R0 # None => AsFloat(R0) = MedianOf(empty_vals)
    /\ R1 # None => AsFloat(R1) = MedianOf(loaded_vals)

\* the representative value each script takes: the median in
\* rpi_ble_scanner.py, the mean in fe_weight_reader.py, the mean rounded to
\* an integer in ble_kegscale_reader.py
Representative(vals) ==
    IF script = "rpi" THEN MedianOf(vals)
    ELSE IF script = "fe" THEN MeanOf(vals)
    ELSE FInt(IntRound(MeanOf(vals)))

\* C24, amended: run_calibration of rpi_ble_scanner.py takes the median of
\* each capture, so one transient sample among three or more does not become
\* the representative value; the captures of ble_kegscale_reader.py and
\* fe_weight_reader.py take the arithmetic mean.
C24_CaptureIsMedianOrMean ==
    /\ R0 # None => AsFloat(R0) = Representative(empty_vals)
    /\ R1 # None => AsFloat(R1) = Representative(loaded_vals)

\* a capture of rpi_ble_scanner.py of three values with a transient among
\* them, whose median is not its mean
C24_Witness ==
    /\ script = "rpi"
    /\ R0 # None
    /\ Len(empty_vals) >= 3
    /\ MedianOf(empty_vals) # MeanOf(empty_vals)
    /\ R0[1] = MedianOf(empty_vals)

(***************************************************************************)
(* The post-processing of the raw field.                                   *)
(***************************************************************************)
\* the call was made on a raw value
Selected == decoder = "apply_byte_select_and_shift" /\ args.val # None

\* C25 as claimed: the shift is applied first and the mask second, so with
\* the mask 0xFF of --raw-byte low the value is (raw >> s) & 0xFF.
C25_ShiftThenMask ==
    (Selected /\ args.raw_byte = "low") =>
       res.ret = Some(BitAnd(args.val[1] \div (2 ^ args.shift), 255))

\* C25, amended: the byte is selected first and shifted second:
\* (raw & 0xFF) >> s for low, ((raw >> 8) & 0xFF) >> s for high, and raw >> s
\* when no byte is selected, as in live_read of ble_kegscale_reader.py.
C25_MaskThenShift ==
    Selected =>
       res.ret = Some((CASE args.raw_byte = "low" -> args.val[1] % 256
                         [] args.raw_byte = "high" -> (args.val[1] \div 256) % 256
                         [] OTHER -> args.val[1]) \div (2 ^ args.shift))

\* a value whose low byte shifted is not the low byte of the value shifted
C25_Witness ==
    /\ Selected
    /\ args.raw_byte = "low"
    /\ args.shift > 0
    /\ res.ret # Some(BitAnd(args.val[1] \div (2 ^ args.shift), 255))

(***************************************************************************)
(* C26.  In zero mode the zero offset is captured from one frame, the      *)
(* first for which a weight is computed, and no later frame changes it,    *)
(* whatever that first weight is.                                          *)
(***************************************************************************)
ZeroStep ==
    (opts.reader \in {"ble", "fe"} /\ opts.zero) =>
       /\ (kg_now = None /\ kg_now' # None) =>
             zero_offset' = IF opts.reader = "fe" THEN kg_now' ELSE kg_now'[1]
       /\ kg_now # None => zero_offset' = zero_offset

C26_ZeroOffsetCapturedOnce == [][ZeroStep]_vars

(***************************************************************************)
(* C27.  The auto-tare of kegmaster_reader_auto_tare.py, for a positive    *)
(* --tare-samples.  raws holds the raw32 of every frame that had one.      *)
(***************************************************************************)
\* while taring there is no tare, no weight and nothing in the window; taring
\* lasts while fewer than tare_samples frames with a raw32 were received; the
\* tare is then the element n // 2 of the sorted readings, or the manual one
TareMachine ==
    opts.reader = "km" =>
       /\ is_taring => (window = <<>> /\ kg_now = None /\ dynamic_tare = None)
       /\ is_taring <=> (opts.manual_tare = None /\ Len(raws) < opts.tare_samples)
       /\ is_taring => tare_readings = raws
       /\ (~is_taring /\ opts.manual_tare = None) =>
             /\ Len(tare_readings) = opts.tare_samples
             /\ dynamic_tare =
                   Some(Sorted(SubSeq(raws, 1, opts.tare_samples))[opts.tare_samples \div 2 + 1])
             /\ Len(window) <= Len(raws) - opts.tare_samples
       /\ opts.manual_tare # None => dynamic_tare = opts.manual_tare

\* once taring is over it stays over and the tare stays; a frame without a
\* raw32 adds no reading
TareStep ==
    opts.reader = "km" =>
       /\ ~is_taring => (~is_taring' /\ dynamic_tare' = dynamic_tare)
       /\ tare_readings' # tare_readings => (is_taring /\ raws' # raws)
       /\ raws' = raws => UNCHANGED kmVars

C27_AutoTareOneWay == []TareMachine /\ [][TareStep]_vars

\* the tare was taken from readings that differ and a weight was computed
C27_Witness ==
    /\ opts.reader = "km"
    /\ opts.manual_tare = None
    /\ ~is_taring
    /\ tare_readings[1] # tare_readings[2]
    /\ window # <<>>
    /\ Len(adv.sd) < 17

(***************************************************************************)
(* C28.  The payload the scanner callback decodes.                         *)
(***************************************************************************)
\* the service data of the advertisement last received has a value of 17
\* bytes
Has17 == \E i \in 1..Len(adv.sd) : Len(adv.sd[i].val) = 17

\* what _find_e4be_payload returns for the advertisement last received is
\* None or 17 bytes long, and None when no value is; decode_payload was only
\* called on 17 bytes and did not raise
FoundIs17 ==
    opts.reader = "tare" =>
       /\ find_e4be_payload(adv.sd, opts.uuid) # None =>
             Len(find_e4be_payload(adv.sd, opts.uuid)[1]) = 17
       /\ ~Has17 => find_e4be_payload(adv.sd, opts.uuid) = None
       /\ decoder = "decode_payload" => (Len(data) = 17 /\ res.exc = "")

\* an advertisement without a value of 17 bytes gives no record and no call
\* of decode_payload
NoRecordStep == (opts.reader = "tare" /\ ~Has17') => UNCHANGED <<raws, decVars, tareVars>>

C28_OnlySeventeenBytesDecoded == []FoundIs17 /\ [][NoRecordStep]_vars

\* the value under the E4BE key has 18 bytes and the payload decoded is the
\* 17-byte value of another key
C28_Witness ==
    /\ opts.reader = "tare"
    /\ Len(adv.sd) = 2
    /\ Len(adv.sd[1].val) = 18
    /\ decoder = "decode_payload"
    /\ data = adv.sd[2].val
    /\ raws # <<>>
    /\ LastRaw = raws[Len(raws)]

(***************************************************************************)
(* C29.  parse_scan_record on truncated advertisements.                    *)
(***************************************************************************)
\* parse_scan_record returns a ScanRecord of its input and does not raise,
\* whatever the bytes
C29_ParseNeverRaises ==
    decoder = "parse_scan_record" =>
       /\ res.exc = ""
       /\ res.ret # None
       /\ res.ret[1].raw = data

(***************************************************************************)
(* C30.  The battery percentage.                                           *)
(***************************************************************************)
\* the percentage is in 0..100, 0 below 3165 mV and 100 from 4168 mV on, not
\* below the percentage of any lower reading, and the same in the three
\* implementations
C30_BatteryPercentage ==
    decoder \in BatteryImpls =>
       /\ res.exc = ""
       /\ res.ret[1] \in 0..100
       /\ args.millivolts < 3165 => res.ret[1] = 0
       /\ args.millivolts >= 4168 => res.ret[1] = 100
       /\ \A m \in Millivolts :
             m <= args.millivolts => mv_to_battery_percentage(decoder, m) <= res.ret[1]
       /\ \A impl \in BatteryImpls :
             mv_to_battery_percentage(impl, args.millivolts) = res.ret[1]

\* 3506 mV, an entry of the table, read by the decoder with the paired table
C30_Witness ==
    /\ decoder = "kegscale_decoder"
    /\ args.millivolts = 3506
    /\ res.ret = Some(19)

====
